---- MODULE Spec2Model ----
(***************************************************************************)
(* Verification model of ZBstorage: the real-node manifest log             *)
(* (LocalMetadataManager), the SRM node registry with its health monitor   *)
(* and the NodeAgent loop, the gateway RequestDispatcher, and the MDS      *)
(* namespace operations with their directory locks.                        *)
(*                                                                         *)
(* Each subsystem has its own specification over the shared variable list; *)
(* a specification leaves the other subsystems' variables unchanged.       *)
(***************************************************************************)
EXTENDS Integers, Sequences, FiniteSets, TLC

(***************************************************************************)
(* Bounds of the model.                                                    *)
(***************************************************************************)
\* chunk ids are 1..MaxChunk
MaxChunk == 2
\* number of configured data roots (data_roots_.size())
NumRoots == 2
\* AllocPath/DeletePath stop once the manifest file holds this many tokens
MaxLogTokens == 9
MaxAllocs == 4
\* the clock stops at MaxTime ticks
MaxTime == 5
\* heartbeat_timeout_ and health_check_interval_ in ticks
HeartbeatTimeout == 2
HealthCheckInterval == 2
\* the agent's heartbeat_interval_ms_ and register_backoff_ms_ in ticks
HeartbeatInterval == 1
RegisterBackoff == 2
\* HandleRegister stops once id_seq_ has passed MaxSeq
MaxSeq == 2
\* the SRM process is restarted at most MaxRestarts times
MaxRestarts == 1
\* the gateway calls of a run
MaxCalls == 2
\* the inode numbers the allocator hands out are 0 .. MaxInodes - 1
MaxInodes == 3
\* the threads calling into MdsServer
NumThreads == 2
\* the operations of a run that get as far as taking a lock
MaxOps == 6
\* FLAGS_virtual_node_capacity_bytes, and the capacity of a JSON device
CapacityBytes == 2
\* the virtual nodes of each class that InitEmpty is asked for
MaxSsdNodes == 2
MaxHddNodes == 1
MaxMixNodes == 1
\* the inode slots written to the batch file
MaxSlots == 2
\* the largest file size and node index of an inode slot
MaxBytes == 2
MaxIdx == 1
\* how often the SRM process is started again
MaxSrmRuns == 1
\* the largest opts_.max_open_files
MaxOpenFiles == 2
\* the callers inside Write or Read on one key at a time
MaxUsers == 2
MaxByte == 2
MaxData == 1
MaxOffset == 1
MaxFileLen == 2
MaxChunkOps == 3
\* the rounds of a background loop
MaxRounds == 3
\* the scale of byte counts: 1024 and 16383 in the code
Kilo == 2
MaxSizeValue == 3
\* the virtual engine: failure rates in steps of 1/RateScale, request sizes
RateScale == 2
MaxIoSize == 9
DefaultReadSize == 4
\* the slot format: 256, 512 bytes and the longest filename
LenMod == 4
SlotSize == 20
MaxName == 5

VARIABLES
    \* ---- LocalMetadataManager (real node manifest) ----
    path_map,        \* path_map_: chunk_id -> path (a function on the mapped ids)
    next_root,       \* next_root_
    manifest_open,   \* manifest_out_.is_open()
    manifest_file,   \* the manifest log on disk: its whitespace-separated tokens
    \* ---- SRM: StorageNodeManager, NodeRegistry, health thread ----
    now,             \* the clock (steady_clock::now()), in ticks
    nodes,           \* NodeRegistry::nodes_: node_id -> NodeContext
    id_seq,          \* StorageNodeManager::id_seq_
    srm_epoch,       \* which run of the SRM process this is (wall-clock part of node ids)
    running,         \* StorageNodeManager::running_
    health_pc,       \* position of the health thread
    health_now,      \* HealthLoop's local `now`
    health_snapshot, \* HealthLoop's local `snapshot`: the records not yet visited
    health_wake,     \* when the health thread's sleep_for returns
    stop_pc,         \* position of the thread calling Stop()
    \* ---- NodeAgent ----
    listen_port,     \* NodeAgent::listen_port_
    agent_pc,        \* position of the agent's worker thread
    agent_node_id,   \* NodeAgent::node_id_
    agent_has_stub,  \* NodeAgent::stub_ is set
    agent_wake,      \* when the agent's sleep_for returns
    rpc,             \* the agent's RPC to the SRM: request, response or failure
    \* ---- RequestDispatcher ----
    has_engine,      \* RequestDispatcher::virtual_engine_ is set
    stubs,           \* RequestDispatcher::stubs_: node id -> the stub cached for it
    calls,           \* the gateway calls: request, response, closure, progress
    \* ---- MdsServer ----
    inode_table,     \* MdsServer::inode_table_: path -> inode number
    path_kv,         \* MetadataManager's path -> inode index
    bitmap,          \* the inode allocator's bitmap: the allocated inode numbers
    slots,           \* InodeStorage: inode number -> the inode written to its slot
    pages,           \* DirStore: directory inode number -> its entries, in order
    held,            \* DirectoryLockTable: thread -> the lock guards it holds
    th,              \* the threads calling into MdsServer: operation and position
    race,            \* the mkdir/mkdir scenario: its phase and the two paths
    ops,             \* how many operations have gone on to take a lock
    observer,        \* handle_observer_: is one registered, and its last notification
    \* ---- VirtualNodeLedger, InodeBatchMonitor, VirtualNodeController ----
    vflags,          \* the SRM's command line: which ledger to build at start
    ledger,          \* VirtualNodeLedger: nodes_ and dirty_
    monitor,         \* InodeBatchMonitor: position, offsets_, checkpoint_dirty_, updated
    vfiles,          \* the files on disk: nodes JSON, batch file, checkpoint
    applied,         \* history: the leading slots of the batch file that the
                     \* ledger, and the nodes JSON, already account for
    \* ---- IOEngine ----
    max_open_files,  \* opts_.max_open_files
    fd_cache,        \* fd_cache_: key -> ref_count of the entries present
    lru,             \* lru_: the keys, most recently used first
    fd_users,        \* the callers between AcquireFd and ReleaseFd, per key
    \* ---- StorageServiceImpl (real node chunk service) ----
    ready,           \* StorageServiceImpl::ready_
    chunk_files,     \* the chunk files on disk: path -> bytes
    chunk_reply,     \* the last request served and its reply
    chunk_ops,       \* the requests served so far
    last_write,      \* history: chunk_id -> offset and data of a write that
                     \* stored all its data, until the chunk is written or
                     \* truncated again
    \* ---- handlers that take locks and call other processes ----
    tasks,           \* per thread: the handler it runs, its position, the
                     \* locks it holds and its call in flight
    \* ---- a background loop with its Start and Stop ----
    bg,              \* running_, thread_, the loop's position, the callers of
                     \* Start and Stop; quiet: a Stop has returned and no
                     \* Start was called since
    \* ---- functions of one call ----
    probe,           \* the last call and its result
    \* ---- the threads of the SRM's RPC server inside HandleHeartbeat ----
    hb,              \* per thread: its position, the request's node_id and
                     \* the time point it read
    \* ---- one inode slot and the calls that rewrite it ----
    rmw              \* the slot, its first content, and per thread the call,
                     \* its position and the Inode object it read

manifestVars == <<path_map, next_root, manifest_open, manifest_file>>
registryVars == <<nodes, id_seq, srm_epoch>>
healthVars == <<running, health_pc, health_now, health_snapshot, health_wake, stop_pc>>
agentVars == <<listen_port, agent_pc, agent_node_id, agent_has_stub, agent_wake>>
srmVars == <<now, registryVars, healthVars, agentVars, rpc>>
dispVars == <<has_engine, stubs, calls>>

fsVars == <<inode_table, path_kv, bitmap, slots, pages>>
mdsVars == <<fsVars, held, th, race, ops, observer>>

ledgerVars == <<vflags, ledger, monitor, vfiles, applied>>
fdVars == <<max_open_files, fd_cache, lru, fd_users>>
chunkVars == <<ready, chunk_files, chunk_reply, chunk_ops, last_write>>
taskVars == <<tasks>>
bgVars == <<bg>>
probeVars == <<probe>>
lateVars == <<hb, rmw>>
moreVars == <<chunkVars, taskVars, bgVars, probeVars, lateVars>>

vars == <<manifestVars, srmVars, dispVars, mdsVars, ledgerVars, fdVars, moreVars>>

\* what the actions of one component leave alone
nonManifestVars == <<srmVars, dispVars, mdsVars, ledgerVars, fdVars, moreVars>>
nonSrmVars == <<manifestVars, dispVars, mdsVars, ledgerVars, fdVars, moreVars>>
nonDispVars == <<manifestVars, now, id_seq, srm_epoch, healthVars, agentVars, rpc, mdsVars, ledgerVars, fdVars, moreVars>>
nonMdsVars == <<manifestVars, srmVars, dispVars, ledgerVars, fdVars, moreVars>>
nonLedgerVars == <<manifestVars, srmVars, dispVars, mdsVars, fdVars, moreVars>>
nonFdVars == <<manifestVars, srmVars, dispVars, mdsVars, ledgerVars, moreVars>>
nonChunkVars == <<srmVars, dispVars, mdsVars, ledgerVars, fdVars, taskVars, bgVars, probeVars, lateVars>>
nonTaskVars == <<manifestVars, srmVars, dispVars, mdsVars, ledgerVars, fdVars, chunkVars, bgVars, probeVars, lateVars>>
nonBgVars == <<manifestVars, srmVars, dispVars, mdsVars, ledgerVars, fdVars, chunkVars, taskVars, probeVars, lateVars>>
nonProbeVars == <<manifestVars, srmVars, dispVars, mdsVars, ledgerVars, fdVars, chunkVars, taskVars, bgVars, lateVars>>
nonHbVars == <<manifestVars, dispVars, mdsVars, ledgerVars, fdVars, chunkVars, taskVars, bgVars, probeVars, rmw>>
nonRmwVars == <<manifestVars, srmVars, dispVars, mdsVars, ledgerVars, fdVars, chunkVars, taskVars, bgVars, probeVars, hb>>

(***************************************************************************)
(* LocalMetadataManager                                                    *)
(*                                                                         *)
(* The manifest is a text file.  AppendRecord writes                       *)
(*     op ' ' chunk_id ' ' path '\n'                                       *)
(* and LoadManifest reads it back with `in >> op >> chunk_id >> path`,     *)
(* i.e. as whitespace-separated tokens: spaces and newlines are the same   *)
(* to the reader, and an empty path leaves no token behind.  The file is   *)
(* therefore modelled as the sequence of its tokens.                       *)
(***************************************************************************)
ChunkIds == 1..MaxChunk

\* A token of the file.  k is the token class: the words "ADD" and "DEL",
\* "num" for a decimal number (value c), "path" for a path string (the
\* path of chunk c below data root r).
Tok(k, c, r) == [k |-> k, c |-> c, r |-> r]
WordTok(w)   == Tok(w, 0, 0)
NumTok(c)    == Tok("num", c, 0)

\* root + "/" + ShardedRelativePath(chunk_id): determined by root and id
FullPath(root, chunk_id) == Tok("path", chunk_id, root)

\* The empty std::string
EmptyPath == Tok("empty", 0, 0)

\* manifest_out_ << op << ' ' << chunk_id << ' ' << path << '\n'
RecordTokens(op, chunk_id, path) ==
    <<WordTok(op), NumTok(chunk_id)>> \o (IF path = EmptyPath THEN <<>> ELSE <<path>>)

AppendRecord(file, is_open, op, chunk_id, path) ==
    IF ~is_open THEN file ELSE file \o RecordTokens(op, chunk_id, path)

\* m with key k erased / set
MapErase(m, k) == [x \in (DOMAIN m) \ {k} |-> m[x]]
MapPut(m, k, v) == [x \in (DOMAIN m) \cup {k} |-> IF x = k THEN v ELSE m[x]]
EmptyMap == [x \in {} |-> 0]

\* while (in >> op >> chunk_id >> path) { ... }: three extractions per
\* round; the loop ends when one fails (end of file, or a token that is not
\* a number where chunk_id is read).
RECURSIVE LoadFrom(_, _, _)
LoadFrom(file, i, m) ==
    IF i + 2 > Len(file) THEN m
    ELSE IF file[i + 1].k # "num" THEN m
    ELSE LET op == file[i].k
             chunk_id == file[i + 1].c
             path == file[i + 2]
             m2 == IF op = "ADD" THEN MapPut(m, chunk_id, path)
                   ELSE IF op = "DEL" THEN MapErase(m, chunk_id)
                   ELSE m
         IN LoadFrom(file, i + 3, m2)

LoadManifest(file) == LoadFrom(file, 1, EmptyMap)

GetPath(chunk_id) ==
    IF chunk_id \in DOMAIN path_map THEN path_map[chunk_id] ELSE EmptyPath

ManifestInit ==
    /\ path_map = EmptyMap
    /\ next_root = 0
    /\ manifest_open \in BOOLEAN
    /\ manifest_file = <<>>

\* the manifest of a module that plays no part in the specification at hand
ManifestIdle ==
    /\ path_map = EmptyMap
    /\ next_root = 0
    /\ manifest_open = TRUE
    /\ manifest_file = <<>>

AllocPath(chunk_id) ==
    /\ Len(manifest_file) + 3 <= MaxLogTokens
    /\ next_root < MaxAllocs
    /\ IF chunk_id \in DOMAIN path_map
       THEN UNCHANGED vars
       ELSE LET root == next_root % NumRoots
                full_path == FullPath(root, chunk_id)
            IN /\ next_root' = next_root + 1
               /\ path_map' = MapPut(path_map, chunk_id, full_path)
               /\ manifest_file' = AppendRecord(manifest_file, manifest_open,
                                                "ADD", chunk_id, full_path)
               /\ UNCHANGED <<manifest_open, nonManifestVars>>

DeletePath(chunk_id) ==
    /\ Len(manifest_file) + 3 <= MaxLogTokens
    /\ IF chunk_id \notin DOMAIN path_map
       THEN UNCHANGED vars
       ELSE /\ path_map' = MapErase(path_map, chunk_id)
            /\ manifest_file' = AppendRecord(manifest_file, manifest_open,
                                             "DEL", chunk_id, EmptyPath)
            /\ UNCHANGED <<next_root, manifest_open, nonManifestVars>>

\* The node restarts: the destructor closes the log, the constructor of the
\* next process replays it and opens it for append.
ManifestRestart ==
    /\ path_map' = LoadManifest(manifest_file)
    /\ next_root' = 0
    /\ manifest_open' \in BOOLEAN
    /\ UNCHANGED <<manifest_file, nonManifestVars>>

ManifestNext ==
    \/ \E c \in ChunkIds : AllocPath(c)
    \/ \E c \in ChunkIds : DeletePath(c)
    \/ ManifestRestart

\* A record that reached the disk only in part.  A word or a path that was
\* cut is a token of its own class: "AD" is not "ADD", and the leading part
\* of a path is another string than the path.
PartWord == Tok("partword", 0, 0)
PartPath(path) == Tok("partpath", path.c, path.r)

\* the leading parts of `op chunk_id path \n` that end before the record
\* does: a cut op word, the op word, op and chunk_id when a path is to
\* follow, and all three with the path cut
TornRecords(op, chunk_id, path) ==
    {<<PartWord>>, <<WordTok(op)>>}
        \cup (IF path = EmptyPath THEN {}
              ELSE {<<WordTok(op), NumTok(chunk_id)>>,
                    <<WordTok(op), NumTok(chunk_id), PartPath(path)>>})

\* the file ends in a record that was cut
TornTail(file) ==
    /\ file # <<>>
    /\ \/ file[Len(file)].k \in {"partword", "partpath", "ADD", "DEL"}
       \/ /\ file[Len(file)].k = "num"
          /\ Len(file) > 1
          /\ file[Len(file) - 1].k = "ADD"

\* AllocPath in a process that ends while the record is written: a leading
\* part of the record is on disk and the next process replays the file
TornAlloc(chunk_id) ==
    /\ manifest_open
    /\ ~TornTail(manifest_file)
    /\ Len(manifest_file) + 3 <= MaxLogTokens
    /\ next_root < MaxAllocs
    /\ chunk_id \notin DOMAIN path_map
    /\ \E part \in TornRecords("ADD", chunk_id,
                                FullPath(next_root % NumRoots, chunk_id)) :
          /\ manifest_file' = manifest_file \o part
          /\ path_map' = LoadManifest(manifest_file')
    /\ next_root' = 0
    /\ manifest_open' \in BOOLEAN
    /\ UNCHANGED nonManifestVars

\* DeletePath in a process that ends while the record is written
TornDelete(chunk_id) ==
    /\ manifest_open
    /\ ~TornTail(manifest_file)
    /\ Len(manifest_file) + 3 <= MaxLogTokens
    /\ chunk_id \in DOMAIN path_map
    /\ \E part \in TornRecords("DEL", chunk_id, EmptyPath) :
          /\ manifest_file' = manifest_file \o part
          /\ path_map' = LoadManifest(manifest_file')
    /\ next_root' = 0
    /\ manifest_open' \in BOOLEAN
    /\ UNCHANGED nonManifestVars

\* the manifest with records that can be cut; once the file ends in a cut
\* record nothing is appended to it
TornNext ==
    \/ \E c \in ChunkIds : ~TornTail(manifest_file) /\ AllocPath(c)
    \/ \E c \in ChunkIds : ~TornTail(manifest_file) /\ DeletePath(c)
    \/ ManifestRestart
    \/ \E c \in ChunkIds : TornAlloc(c)
    \/ \E c \in ChunkIds : TornDelete(c)

\* the records of a file, read record by record: ADD has a path, DEL none
RECURSIVE FoldRecords(_, _, _)
FoldRecords(file, i, m) ==
    IF i > Len(file) THEN m
    ELSE IF file[i].k = "ADD" /\ i + 2 <= Len(file)
    THEN FoldRecords(file, i + 3, MapPut(m, file[i + 1].c, file[i + 2]))
    ELSE IF file[i].k = "DEL" /\ i + 1 <= Len(file)
    THEN FoldRecords(file, i + 2, MapErase(m, file[i + 1].c))
    ELSE m


(***************************************************************************)
(* SRM: NodeRegistry, StorageNodeManager and its health thread             *)
(*                                                                         *)
(* Time is a discrete clock.  The health thread's sweep takes no time and  *)
(* its sleep_for returns exactly health_check_interval_ later: the clock   *)
(* advances only while the thread sleeps, and not past its wake-up time.   *)
(* Request handlers still interleave with the steps of a sweep.            *)
(***************************************************************************)
\* GenerateNodeId: "node-<wall clock ms>-<seq>".  The wall-clock part differs
\* between runs of the SRM process, seq is unique within one run.
NodeId(epoch, seq) == [epoch |-> epoch, seq |-> seq]
\* the empty std::string
EmptyNodeId == NodeId(0, 0)
\* "vnode-<i>" as pre-registered by main()
VNodeId(i) == NodeId(0, i)
VNodeIds == {VNodeId(1)}

NodeContext(type, state, last_heartbeat) ==
    [type |-> type, state |-> state, last_heartbeat |-> last_heartbeat]

\* NodeRegistry::Upsert: stamps last_heartbeat = now and overwrites by node_id
Upsert(reg, node_id, ctx, t) ==
    MapPut(reg, node_id, [ctx EXCEPT !.last_heartbeat = t])

\* A registry whose UpdateHeartbeat refreshes the timestamp but leaves the
\* state alone: the variant C6 must tell apart from the code.
UpdateHeartbeat_KeepState(reg, node_id, t) ==
    IF node_id \notin DOMAIN reg THEN reg
    ELSE [reg EXCEPT ![node_id] = [@ EXCEPT !.last_heartbeat = t]]

\* NodeRegistry::UpdateHeartbeat: the registry afterwards
UpdateHeartbeat(reg, node_id, t) ==
    IF node_id \notin DOMAIN reg THEN reg
    ELSE [reg EXCEPT ![node_id] = [@ EXCEPT !.last_heartbeat = t, !.state = "Online"]]

\* NodeRegistry::UpdateHeartbeat: its return value
UpdateHeartbeatOk(reg, node_id) == node_id \in DOMAIN reg

\* NodeRegistry::MarkOffline
MarkOffline(reg, node_id) ==
    IF node_id \notin DOMAIN reg THEN reg
    ELSE [reg EXCEPT ![node_id] = [@ EXCEPT !.state = "Offline"]]

\* A health loop that lets a node go one tick longer: the variant C2 must
\* tell apart from the code.
HeartbeatExpired_Late(t, ctx) ==
    /\ t - ctx.last_heartbeat > HeartbeatTimeout + 1
    /\ ctx.state # "Offline"

\* HealthLoop: elapsed > heartbeat_timeout_ && ctx.state != NodeState::Offline
HeartbeatExpired(t, ctx) ==
    /\ t - ctx.last_heartbeat > HeartbeatTimeout
    /\ ctx.state # "Offline"

\* The value a std::string is left with after std::move(ctx) has been used
\* to construct Upsert's by-value parameter: valid but unspecified.  The
\* usual library leaves it empty; an unchanged string is allowed as well.
MovedFromString(s) == {EmptyNodeId, s}

\* An RPC of the agent
NoRpc == [kind |-> "None", node_id |-> EmptyNodeId, code |-> "Success",
          require_rereg |-> FALSE, port |-> 0]
RegisterRequest(port) == [NoRpc EXCEPT !.kind = "RegisterReq", !.port = port]
RegisterResponse(node_id, code) ==
    [NoRpc EXCEPT !.kind = "RegisterResp", !.node_id = node_id, !.code = code]
HeartbeatRequest(node_id) == [NoRpc EXCEPT !.kind = "HeartbeatReq", !.node_id = node_id]
HeartbeatResponse(code, rereg) ==
    [NoRpc EXCEPT !.kind = "HeartbeatResp", !.code = code, !.require_rereg = rereg]
\* cntl.Failed(): timeout or transport error
RpcFailed == [NoRpc EXCEPT !.kind = "Failed"]

SrmInit ==
    /\ now = 0
    /\ nodes = EmptyMap
    /\ id_seq = 1
    /\ srm_epoch = 1
    /\ running = FALSE
    /\ health_pc = "none"
    /\ health_now = 0
    /\ health_snapshot = EmptyMap
    /\ health_wake = 0
    /\ stop_pc = "idle"
    /\ listen_port \in {0, 9200}
    /\ agent_pc = "stopped"
    /\ agent_node_id = EmptyNodeId
    /\ agent_has_stub = FALSE
    /\ agent_wake = 0
    /\ rpc = NoRpc

\* the SRM and the agent of a specification they play no part in
SrmIdle ==
    /\ SrmInit
    /\ listen_port = 9200

\* the dispatcher of a specification it plays no part in
DispatchIdle ==
    /\ has_engine = TRUE
    /\ stubs = EmptyMap
    /\ calls = <<>>

\* The clock.  The health thread's sweep is instantaneous and its sleep is
\* exact.
Tick ==
    /\ now < MaxTime
    /\ health_pc \notin {"check", "sweep"}
    /\ health_pc = "sleep" => now < health_wake
    /\ now' = now + 1
    /\ UNCHANGED <<registryVars, healthVars, agentVars, rpc, nonSrmVars>>

\* StorageNodeManager::Start, called by the thread that owns the manager
Start ==
    /\ stop_pc = "idle"
    /\ health_pc = "none"
    /\ ~running
    /\ running' = TRUE
    /\ health_pc' = "check"
    /\ UNCHANGED <<now, registryVars, health_now, health_snapshot, health_wake,
                   stop_pc, agentVars, rpc, nonSrmVars>>

\* StorageNodeManager::Stop up to the join
StopBegin ==
    /\ stop_pc = "idle"
    /\ running
    /\ running' = FALSE
    /\ stop_pc' = "joining"
    /\ UNCHANGED <<now, registryVars, health_pc, health_now, health_snapshot,
                   health_wake, agentVars, rpc, nonSrmVars>>

\* health_thread_.join() returns
StopJoin ==
    /\ stop_pc = "joining"
    /\ health_pc = "exited"
    /\ health_pc' = "none"
    /\ stop_pc' = "idle"
    /\ UNCHANGED <<now, registryVars, running, health_now, health_snapshot,
                   health_wake, agentVars, rpc, nonSrmVars>>

\* HealthLoop: while (running_) { now = ...; snapshot = registry_.Snapshot();
HealthCheck ==
    /\ health_pc = "check"
    /\ IF ~running
       THEN /\ health_pc' = "exited"
            /\ UNCHANGED <<health_now, health_snapshot, health_wake>>
       ELSE /\ health_now' = now
            /\ health_snapshot' = nodes
            /\ IF DOMAIN nodes = {}
               THEN health_pc' = "sleep" /\ health_wake' = now + HealthCheckInterval
               ELSE health_pc' = "sweep" /\ UNCHANGED health_wake
    /\ UNCHANGED <<now, registryVars, running, stop_pc, agentVars, rpc, nonSrmVars>>

\* HealthLoop: one round of `for (const auto& ctx : snapshot)`; after the
\* last record the thread calls sleep_for(health_check_interval_).
HealthVisit(node_id) ==
    /\ health_pc = "sweep"
    /\ node_id \in DOMAIN health_snapshot
    /\ nodes' = IF HeartbeatExpired(health_now, health_snapshot[node_id])
                THEN MarkOffline(nodes, node_id)
                ELSE nodes
    /\ health_snapshot' = MapErase(health_snapshot, node_id)
    /\ IF DOMAIN health_snapshot = {node_id}
       THEN health_pc' = "sleep" /\ health_wake' = now + HealthCheckInterval
       ELSE UNCHANGED <<health_pc, health_wake>>
    /\ UNCHANGED <<now, id_seq, srm_epoch, running, health_now, stop_pc,
                   agentVars, rpc, nonSrmVars>>

\* sleep_for returns
HealthWake ==
    /\ health_pc = "sleep"
    /\ now = health_wake
    /\ health_pc' = "check"
    /\ UNCHANGED <<now, registryVars, running, health_now, health_snapshot,
                   health_wake, stop_pc, agentVars, rpc, nonSrmVars>>

\* StorageNodeManager::AddVirtualNode
AddVirtualNode(node_id) ==
    /\ nodes' = Upsert(nodes, node_id, NodeContext("Virtual", "Online", now), now)
    /\ UNCHANGED <<now, id_seq, srm_epoch, healthVars, agentVars, rpc, nonSrmVars>>

\* StorageNodeManager::HandleRegister, serving the agent's RegisterNode
HandleRegister ==
    /\ rpc.kind = "RegisterReq"
    /\ IF rpc.port = 0
       THEN /\ rpc' = RegisterResponse(EmptyNodeId, "InvalidArgument")
            /\ UNCHANGED registryVars
       ELSE /\ id_seq <= MaxSeq
            /\ LET node_id == NodeId(srm_epoch, id_seq)
                   ctx == NodeContext("Real", "Online", now)
               IN /\ id_seq' = id_seq + 1
                  /\ nodes' = Upsert(nodes, node_id, ctx, now)
                  /\ \E returned \in MovedFromString(node_id) :
                        rpc' = RegisterResponse(returned, "Success")
                  /\ UNCHANGED srm_epoch
    /\ UNCHANGED <<now, healthVars, agentVars, nonSrmVars>>

\* StorageNodeManager::HandleHeartbeat, serving the agent's Heartbeat
HandleHeartbeat ==
    /\ rpc.kind = "HeartbeatReq"
    /\ IF rpc.node_id = EmptyNodeId
       THEN /\ rpc' = HeartbeatResponse("InvalidArgument", TRUE)
            /\ UNCHANGED nodes
       ELSE /\ nodes' = UpdateHeartbeat(nodes, rpc.node_id, now)
            /\ rpc' = IF UpdateHeartbeatOk(nodes, rpc.node_id)
                      THEN HeartbeatResponse("Success", FALSE)
                      ELSE HeartbeatResponse("NodeNotFound", TRUE)
    /\ UNCHANGED <<now, id_seq, srm_epoch, healthVars, agentVars, nonSrmVars>>

\* The call times out or the connection fails, before or after the SRM has
\* served it.
RpcFail ==
    /\ rpc.kind \in {"RegisterReq", "RegisterResp", "HeartbeatReq", "HeartbeatResp"}
    /\ rpc' = RpcFailed
    /\ UNCHANGED <<now, registryVars, healthVars, agentVars, nonSrmVars>>

\* The SRM process is restarted: its registry is in memory only.
SrmRestart ==
    /\ srm_epoch <= MaxRestarts
    /\ srm_epoch' = srm_epoch + 1
    /\ nodes' = EmptyMap
    /\ id_seq' = 1
    /\ running' = FALSE
    /\ health_pc' = "none"
    /\ health_now' = 0
    /\ health_snapshot' = EmptyMap
    /\ health_wake' = 0
    /\ stop_pc' = "idle"
    /\ rpc' = IF rpc.kind \in {"RegisterReq", "HeartbeatReq"} THEN RpcFailed ELSE rpc
    /\ UNCHANGED <<now, agentVars, nonSrmVars>>

(***************************************************************************)
(* NodeAgent                                                               *)
(***************************************************************************)
\* NodeAgent::Start
AgentStart ==
    /\ agent_pc = "stopped"
    /\ agent_pc' = "sleep"
    /\ agent_wake' = now
    /\ UNCHANGED <<now, registryVars, healthVars, listen_port, agent_node_id,
                   agent_has_stub, rpc, nonSrmVars>>

\* Run: the loop head after a sleep, with node_id_ empty: DoRegister up to
\* the RegisterNode call, or its failure to build the channel.
AgentDoRegister ==
    /\ agent_pc = "sleep"
    /\ now >= agent_wake
    /\ agent_node_id = EmptyNodeId
    /\ \/ /\ ~agent_has_stub
          /\ agent_wake' = now + RegisterBackoff
          /\ UNCHANGED <<agent_pc, agent_has_stub, rpc>>
       \/ /\ agent_has_stub' = TRUE
          /\ rpc' = RegisterRequest(listen_port)
          /\ agent_pc' = "reg_wait"
          /\ UNCHANGED agent_wake
    /\ UNCHANGED <<now, registryVars, healthVars, listen_port, agent_node_id, nonSrmVars>>

\* DoRegister after the call, and Run's sleep
AgentRegisterReturn ==
    /\ agent_pc = "reg_wait"
    /\ rpc.kind \in {"RegisterResp", "Failed"}
    /\ IF rpc.kind = "Failed" \/ rpc.code # "Success"
       THEN /\ agent_wake' = now + RegisterBackoff
            /\ UNCHANGED agent_node_id
       ELSE /\ agent_node_id' = rpc.node_id
            /\ agent_wake' = now + HeartbeatInterval
    /\ agent_pc' = "sleep"
    /\ rpc' = NoRpc
    /\ UNCHANGED <<now, registryVars, healthVars, listen_port, agent_has_stub, nonSrmVars>>

\* Run: the loop head after a sleep, with node_id_ set: DoHeartbeat up to
\* the Heartbeat call.
AgentDoHeartbeat ==
    /\ agent_pc = "sleep"
    /\ now >= agent_wake
    /\ agent_node_id # EmptyNodeId
    /\ IF ~agent_has_stub
       THEN /\ agent_wake' = now + HeartbeatInterval
            /\ UNCHANGED <<agent_pc, rpc>>
       ELSE /\ rpc' = HeartbeatRequest(agent_node_id)
            /\ agent_pc' = "hb_wait"
            /\ UNCHANGED agent_wake
    /\ UNCHANGED <<now, registryVars, healthVars, listen_port, agent_node_id,
                   agent_has_stub, nonSrmVars>>

\* An agent that keeps its node_id whatever the SRM answers: the variant C5
\* must tell apart from the code.
HeartbeatNodeId_Keep(node_id, resp) == node_id

\* DoHeartbeat after the call: node_id_ afterwards
HeartbeatNodeId(node_id, resp) ==
    IF resp.kind = "Failed" THEN node_id
    ELSE IF resp.require_rereg THEN EmptyNodeId
    ELSE node_id

\* DoHeartbeat after the call: its return value
HeartbeatOk(resp) == resp.kind # "Failed" /\ resp.code = "Success"

\* DoHeartbeat after the call, and Run's sleep
AgentHeartbeatReturn ==
    /\ agent_pc = "hb_wait"
    /\ rpc.kind \in {"HeartbeatResp", "Failed"}
    /\ agent_node_id' = HeartbeatNodeId(agent_node_id, rpc)
    /\ agent_wake' = IF ~HeartbeatOk(rpc) /\ agent_node_id' = EmptyNodeId
                     THEN now + RegisterBackoff
                     ELSE now + HeartbeatInterval
    /\ agent_pc' = "sleep"
    /\ rpc' = NoRpc
    /\ UNCHANGED <<now, registryVars, healthVars, listen_port, agent_has_stub, nonSrmVars>>

SrmNext ==
    \/ Tick
    \/ Start
    \/ StopBegin
    \/ StopJoin
    \/ HealthCheck
    \/ \E n \in DOMAIN health_snapshot : HealthVisit(n)
    \/ HealthWake
    \/ \E n \in VNodeIds : AddVirtualNode(n)
    \/ HandleRegister
    \/ HandleHeartbeat
    \/ RpcFail
    \/ SrmRestart
    \/ AgentStart
    \/ AgentDoRegister
    \/ AgentRegisterReturn
    \/ AgentDoHeartbeat
    \/ AgentHeartbeatReturn

(***************************************************************************)
(* RequestDispatcher                                                       *)
(*                                                                         *)
(* A call is one invocation of DispatchWrite, DispatchRead or              *)
(* DispatchTruncate by the gateway service, with a request, a response     *)
(* and a completion closure of the caller.  done_runs counts the runs of   *)
(* that closure, engine_calls and stub_calls the times the call reached    *)
(* the virtual engine and a real node's stub.                              *)
(***************************************************************************)
CallIds == 1..MaxCalls

\* the node ids a request may carry: empty, a virtual node, two real nodes
RequestNodeIds == {EmptyNodeId, VNodeId(1), NodeId(1, 1), NodeId(1, 2)}

\* registries the SRM can have built by the time the gateway is called:
\* vnode-1 added or not, the first real node registered or not, each Online
\* or marked Offline by the health thread
Registries ==
    LET Opt(id, type) == {EmptyMap} \cup
            {id :> NodeContext(type, st, 0) : st \in {"Online", "Offline"}}
    IN {v @@ r : v \in Opt(VNodeId(1), "Virtual"), r \in Opt(NodeId(1, 1), "Real")}

\* GetStub returned nullptr; a stub is named by the call that created it
NoStub == 0

NewCall == [op |-> "None", node_id |-> EmptyNodeId, pc |-> "new", done_runs |-> 0,
            code |-> "Unset", engine_calls |-> 0, stub_calls |-> 0,
            stub |-> NoStub]

\* StatusUtils::FromErrno
FromErrno(err) ==
    CASE err = "EINVAL" -> "InvalidArgument"
      [] err = "ENOENT" -> "NodeNotFound"
      [] err = "EIO" -> "IoError"
      [] err = "ETIMEDOUT" -> "NetworkError"
      [] OTHER -> "UnknownError"

\* the values of rpc::StatusCode
StatusCodes == {"Success", "UnknownError", "InvalidArgument", "NodeNotFound",
                "IoError", "NetworkError", "VirtualNodeError"}

\* StatusUtils::NormalizeCode
NormalizeCode(code) == IF code \in StatusCodes THEN code ELSE FromErrno(code)

\* if (done) done->Run(); return;  after FillStatus(resp, code)
DoneRun(call, code) ==
    [call EXCEPT !.code = code, !.done_runs = @ + 1, !.pc = "done"]

\* A callback that deletes itself without running the caller's closure:
\* the variant C7 must tell apart from the code.
RealNodeCallbackRun_Drop(call, failed, real_code) ==
    [call EXCEPT !.code = real_code, !.pc = "done"]

\* RealNodeWriteCallback::Run (and the Read and Truncate callbacks)
RealNodeCallbackRun(call, failed, real_code) ==
    [call EXCEPT !.code = IF failed THEN "NetworkError" ELSE NormalizeCode(real_code),
                 !.done_runs = @ + 1,
                 !.pc = "done"]

\* A dispatcher that looks every node_id up, the empty one included: the
\* variant C8 must tell apart from the code.
HasNodeId_Any(node_id) == TRUE

\* !req->node_id().empty()
HasNodeId(node_id) == node_id # EmptyNodeId

\* A lookup that finds only the nodes that are Online: the variant C40 must
\* tell apart from the code.
GetNode_Online(reg, node_id) ==
    node_id \in DOMAIN reg /\ reg[node_id].state = "Online"

\* manager_->GetNode(node_id, ctx): its return value
GetNode(reg, node_id) == node_id \in DOMAIN reg

\* VirtualNodeEngine::MaybeFail and the rest of SimulateWrite/SimulateRead:
\* the status they can leave in the response
SimulateCodes == {"Success", "VirtualNodeError"}

\* VirtualNodeEngine::SimulateTruncate
SimulateTruncateCodes == {"Success", "VirtualNodeError"}

\* A GetStub that builds a channel and a stub on every call and caches the
\* latest: the variant C25 must tell apart from the code.
GetStub_Always(cache, c, node_id, init_ok) ==
    IF ~init_ok THEN [stubs |-> cache, stub |-> NoStub]
    ELSE [stubs |-> MapPut(cache, node_id, c), stub |-> c]

\* RequestDispatcher::GetStub, called by call c, under stub_mu_: the cache
\* afterwards and the stub returned
GetStub(cache, c, node_id, init_ok) ==
    IF node_id \in DOMAIN cache THEN [stubs |-> cache, stub |-> cache[node_id]]
    ELSE IF ~init_ok THEN [stubs |-> cache, stub |-> NoStub]
    ELSE [stubs |-> MapPut(cache, node_id, c), stub |-> c]

\* The body the three Dispatch functions share.  init_ok: brpc's
\* Channel::Init succeeds; engine_code: what the engine answers.
Dispatch(c, op, node_id, init_ok, engine_code) ==
    /\ calls[c].pc = "new"
    /\ LET call == [calls[c] EXCEPT !.op = op, !.node_id = node_id]
       IN IF ~HasNodeId(node_id)
          THEN /\ calls' = [calls EXCEPT ![c] = DoneRun(call, "InvalidArgument")]
               /\ UNCHANGED stubs
          ELSE IF ~GetNode(nodes, node_id)
          THEN /\ calls' = [calls EXCEPT ![c] = DoneRun(call, "NodeNotFound")]
               /\ UNCHANGED stubs
          ELSE IF nodes[node_id].type = "Virtual"
          THEN /\ calls' = [calls EXCEPT ![c] =
                               IF ~has_engine
                               THEN DoneRun(call, "VirtualNodeError")
                               ELSE DoneRun([call EXCEPT !.engine_calls = @ + 1],
                                            engine_code)]
               /\ UNCHANGED stubs
          ELSE LET got == GetStub(stubs, c, node_id, init_ok)
               IN /\ stubs' = got.stubs
                  /\ calls' = [calls EXCEPT ![c] =
                        IF got.stub = NoStub
                        THEN DoneRun(call, "NetworkError")
                        ELSE [call EXCEPT !.stub_calls = @ + 1,
                                          !.stub = got.stub,
                                          !.pc = "inflight"]]
    /\ UNCHANGED <<has_engine, nodes, nonDispVars>>

DispatchWrite(c, node_id) ==
    \E init_ok \in BOOLEAN, engine_code \in SimulateCodes :
        Dispatch(c, "Write", node_id, init_ok, engine_code)

DispatchRead(c, node_id) ==
    \E init_ok \in BOOLEAN, engine_code \in SimulateCodes :
        Dispatch(c, "Read", node_id, init_ok, engine_code)

DispatchTruncate(c, node_id) ==
    \E init_ok \in BOOLEAN, engine_code \in SimulateTruncateCodes :
        Dispatch(c, "Truncate", node_id, init_ok, engine_code)

\* the codes a real node's reply can carry
RealNodeCodes == {"Success", "IoError", "EIO", "ENOSPC"}

\* brpc completes the asynchronous call to the real node: with a reply, or
\* with the controller failed (timeout, connection error)
RealNodeComplete(c, failed, real_code) ==
    /\ calls[c].pc = "inflight"
    /\ calls' = [calls EXCEPT ![c] = RealNodeCallbackRun(calls[c], failed, real_code)]
    /\ UNCHANGED <<has_engine, stubs, nodes, nonDispVars>>

DispatchInit ==
    /\ has_engine \in BOOLEAN
    /\ stubs = EmptyMap
    /\ calls = [c \in CallIds |-> NewCall]

DispatchNext ==
    \/ \E c \in CallIds, n \in RequestNodeIds : DispatchWrite(c, n)
    \/ \E c \in CallIds, n \in RequestNodeIds : DispatchRead(c, n)
    \/ \E c \in CallIds, n \in RequestNodeIds : DispatchTruncate(c, n)
    \/ \E c \in CallIds, failed \in BOOLEAN, code \in RealNodeCodes :
          RealNodeComplete(c, failed, code)

(***************************************************************************)
(* MdsServer: the namespace operations                                    *)
(*                                                                         *)
(* DirStore, DirectoryLockTable and MetadataManager (inode allocator and   *)
(* path index) are modelled from their description: first-clear-bit        *)
(* allocation, add rejecting a duplicate name, remove failing on a missing *)
(* name, reader/writer locks per directory inode.                          *)
(*                                                                         *)
(* An operation runs in steps: what it does before it takes a directory    *)
(* lock (its lookups), the acquisition of each lock, and what it does      *)
(* under the lock, which ends with the guards going out of scope.          *)
(***************************************************************************)
Threads == 1..NumThreads
Inos == 0..(MaxInodes - 1)

\* static_cast<uint64_t>(-1)
InvalidIno == 0 - 1

\* MdsServer::GetRootInode
GetRootInode == 2

\* A path is the sequence of its components; "/" is the empty sequence.
RootPath == <<>>
Paths == {<<>>, <<"a">>, <<"b">>, <<"b", "a">>}

\* path.substr(0, last_slash), or "/" when last_slash == 0
ParentPath(path) == SubSeq(path, 1, Len(path) - 1)
\* path.substr(last_slash + 1)
BaseName(path) == path[Len(path)]

\* last_slash == npos || last_slash == path.length() - 1: of the paths
\* above only "/" ends in a slash
BadPath(path) == path = RootPath

\* What the operations store in an inode and read back from it
InodeOf(ino, file_type, filename) ==
    [inode |-> ino, file_type |-> file_type, filename |-> filename]

\* Inode::Inode(): inode(0), file_mode 0, no filename
DefaultInode == InodeOf(0, "None", <<"">>)

\* InodeStorage::read_inode into a default-constructed Inode: a slot that
\* was never written leaves (or yields) the zero inode
ReadInode(sl, ino) == IF ino \in DOMAIN sl THEN sl[ino] ELSE DefaultInode
ReadInodeOk(sl, ino) == ino \in DOMAIN sl

\* InodeStorage::write_inode
WriteInode(sl, ino, inode) == MapPut(sl, ino, inode)
\* what write_inode can return: inode_file.good() after a seekp to
\* ino * INODE_DISK_SLOT_SIZE, which for the sentinel is beyond any file
WriteInodeOk(ino) == IF ino = InvalidIno THEN BOOLEAN ELSE {TRUE}

\* MdsServer::FindInodeByPath: the inode number of the inode it returns,
\* InvalidIno for nullptr
FindInodeByPath(table, kv, sl, path) ==
    IF path = RootPath THEN ReadInode(sl, GetRootInode).inode
    ELSE IF path \in DOMAIN table /\ ReadInodeOk(sl, table[path])
         THEN ReadInode(sl, table[path]).inode
    ELSE IF path \in DOMAIN kv THEN kv[path]
    ELSE InvalidIno

\* MdsServer::LookupIno
LookupIno(table, kv, sl, path) ==
    IF path \in DOMAIN table THEN table[path]
    ELSE FindInodeByPath(table, kv, sl, path)

\* MetadataManager::allocate_inode: the first clear bit; when no bit is
\* clear and the files cannot grow, the sentinel CreateRoot and CreateFile
\* test for
FreeInos == Inos \ bitmap
AllocateInode(bm) ==
    IF Inos \ bm = {} THEN InvalidIno
    ELSE CHOOSE i \in Inos \ bm : \A j \in Inos \ bm : i <= j
\* mark the bit of an inode the allocator handed out
MarkAllocated(bm, ino) == IF ino = InvalidIno THEN bm ELSE bm \cup {ino}

\* the directory inodes DirStore can be asked for: the slots, and the
\* sentinel when a caller passes it on
PageKeys == Inos \cup {InvalidIno}

\* DirStore
DirEntry(name, ino, file_type) == [name |-> name, inode |-> ino, file_type |-> file_type]
HasName(page, name) == \E i \in 1..Len(page) : page[i].name = name
\* add: rejects a duplicate name
DirAddOk(pg, dir, entry) == ~HasName(pg[dir], entry.name)
DirAdd(pg, dir, entry) ==
    IF DirAddOk(pg, dir, entry) THEN [pg EXCEPT ![dir] = Append(@, entry)] ELSE pg
\* remove: fails when the name is absent
DirRemoveOk(pg, dir, name) == HasName(pg[dir], name)
DirRemove(pg, dir, name) ==
    [pg EXCEPT ![dir] = SelectSeq(@, LAMBDA e : e.name # name)]
\* reset: empties the page
DirReset(pg, dir) == [pg EXCEPT ![dir] = <<>>]

\* DirectoryLockRequest
LockRequest(ino, mode) == [inode |-> ino, mode |-> mode]

\* the comparator of std::sort in acquire_directory_locks: by inode, then
\* by mode (kShared before kExclusive)
RequestLess(lhs, rhs) ==
    IF lhs.inode # rhs.inode THEN lhs.inode < rhs.inode
    ELSE lhs.mode = "Shared" /\ rhs.mode = "Exclusive"

\* An acquire_directory_locks that takes the requests as they come: the
\* variant C9 must tell apart from the code.
SortRequests_AsGiven(requests) == requests

\* std::sort(requests.begin(), requests.end(), ...)
RECURSIVE SortRequests(_)
SortRequests(requests) ==
    IF Len(requests) <= 1 THEN requests
    ELSE LET rest == SortRequests(Tail(requests))
             x == Head(requests)
             before == SelectSeq(rest, LAMBDA r : RequestLess(r, x))
             after == SelectSeq(rest, LAMBDA r : ~RequestLess(r, x))
         IN before \o <<x>> \o after

\* the deduplication loop of acquire_directory_locks
RECURSIVE Dedupe(_, _)
Dedupe(requests, deduped) ==
    IF requests = <<>> THEN deduped
    ELSE LET req == Head(requests)
             n == Len(deduped)
         IN IF n > 0 /\ deduped[n].inode = req.inode
            THEN Dedupe(Tail(requests),
                        IF req.mode = "Exclusive"
                        THEN [deduped EXCEPT ![n].mode = "Exclusive"]
                        ELSE deduped)
            ELSE Dedupe(Tail(requests), Append(deduped, req))

\* acquire_directory_locks: the guards it goes on to construct, in order
AcquireDirectoryLocks(requests) ==
    LET valid == SelectSeq(requests, LAMBDA r : r.inode # InvalidIno)
    IN Dedupe(SortRequests(valid), <<>>)

\* DirectoryLockTable: can thread t be granted the lock?
Grantable(t, req) ==
    \A u \in Threads \ {t} : \A h \in held[u] :
        h.inode = req.inode => (h.mode = "Shared" /\ req.mode = "Shared")

\* handle_observer_: no observer registered (or the weak_ptr has expired),
\* and one registered that has not been called yet
NoObserver == [registered |-> FALSE, last |-> <<>>]
RegisteredObserver == [registered |-> TRUE, last |-> <<>>]

\* MdsServer::notify_handle_observer, called by thread t:
\* observer->CloseHandlesForInode(inode) when handle_observer_.lock() holds
NotifyHandleObserver(obs, t, ino) ==
    IF obs.registered THEN [obs EXCEPT !.last = <<t, ino>>] ELSE obs

\* MdsServer::FindInodeByPath: the inode it returns; NullInode for nullptr
NullInode == InodeOf(InvalidIno, "Null", <<"">>)
FindInode(table, kv, sl, path) ==
    IF path = RootPath THEN ReadInode(sl, GetRootInode)
    ELSE IF path \in DOMAIN table /\ ReadInodeOk(sl, table[path])
         THEN ReadInode(sl, table[path])
    ELSE IF path \in DOMAIN kv THEN ReadInode(sl, kv[path])
    ELSE NullInode

\* a thread outside any operation
IdleThread == [op |-> "None", path |-> RootPath, pc |-> "idle",
               inode_no |-> InvalidIno, parent_ino |-> InvalidIno,
               parent_inode |-> DefaultInode, pending |-> <<>>, result |-> "none",
               rpc_ino |-> InvalidIno, inode |-> DefaultInode]

\* the thread after its operation has returned; what it returned is kept
\* for the two calls of the mkdir/mkdir scenario and for the calls made
\* against an allocator that cannot grow
Returned(res) ==
    [IdleThread EXCEPT !.result =
        IF race.phase \in {"race", "full"} THEN res ELSE "none"]

MdsInit ==
    /\ inode_table = EmptyMap
    /\ path_kv = EmptyMap
    /\ bitmap = {}
    /\ slots = EmptyMap
    /\ pages = [i \in PageKeys |-> <<>>]
    /\ held = [t \in Threads |-> {}]
    /\ th = [t \in Threads |-> IdleThread]
    /\ race = [phase |-> "free", parent |-> RootPath, todo |-> EmptyMap, paths |-> EmptyMap]
    /\ ops = 0
    /\ observer = NoObserver

\* the MDS of a specification it plays no part in
MdsIdle == MdsInit

(***************************************************************************)
(* MdsServer: the steps of the operations                                 *)
(***************************************************************************)
\* May thread t start operation op on path?  Outside the mkdir/mkdir
\* scenario every thread may start anything; in the scenario one thread
\* prepares the namespace and then the two mkdirs are all that runs.
Allowed(t, op, path) ==
    \/ race.phase = "free"
    \/ race.phase = "setup" /\ t = 1
    \/ race.phase = "full" /\ t = 1
    \/ race.phase = "rpc" /\ op \in {"CreateRoot", "CreateFile"}
    \/ race.phase = "obs"
    \/ /\ race.phase = "race"
       /\ op = "Mkdir"
       /\ t \in DOMAIN race.todo
       /\ race.todo[t] = path

\* the scenario after thread t has started its operation
Started(t) ==
    IF race.phase = "race" THEN [race EXCEPT !.todo = MapErase(@, t)] ELSE race

\* The allocator grows when it is full; here it has MaxInodes slots, and an
\* operation that will allocate starts only when a slot is left for it,
\* except where the allocator is one that cannot grow (phase "full").
SlotLeft ==
    \/ race.phase = "full"
    \/ Cardinality(FreeInos) >
           Cardinality({u \in Threads : th[u].op \in {"Mkdir", "CreateFile"}})

\* the operation of thread t returns res before it has taken a lock
ReturnEarly(t, res) ==
    /\ th' = [th EXCEPT ![t] = Returned(res)]
    /\ race' = Started(t)
    /\ UNCHANGED <<fsVars, held, ops, observer>>

\* the operation of thread t goes on to take its locks
Proceed(t, rec) ==
    /\ ops < MaxOps
    /\ ops' = ops + 1
    /\ th' = [th EXCEPT ![t] = rec]
    /\ race' = Started(t)
    /\ UNCHANGED <<held, observer>>

\* the operation of thread t returns res and its guards are destroyed
ReturnUnlock(t, res) ==
    /\ th' = [th EXCEPT ![t] = Returned(res)]
    /\ held' = [held EXCEPT ![t] = {}]
    /\ UNCHANGED <<race, ops, observer>>

\* DirectoryLockGuard(table, inode, mode): blocks until the lock is granted
AcquireLock(t) ==
    /\ th[t].pc = "lock"
    /\ LET req == Head(th[t].pending)
       IN /\ Grantable(t, req)
          /\ held' = [held EXCEPT ![t] = @ \cup {req}]
          /\ th' = [th EXCEPT ![t].pending = Tail(@),
                              ![t].pc = IF Len(th[t].pending) = 1 THEN "body" ELSE "lock"]
    /\ UNCHANGED <<fsVars, race, ops, observer, nonMdsVars>>

\* MdsServer::CreateRoot up to the lock
CreateRootBegin(t) ==
    /\ th[t].pc = "idle"
    /\ Allowed(t, "CreateRoot", RootPath)
    /\ IF RootPath \in DOMAIN inode_table
       THEN ReturnEarly(t, TRUE)
       ELSE /\ SlotLeft
            /\ LET ino == AllocateInode(bitmap)
               IN IF ino = InvalidIno
                  THEN ReturnEarly(t, FALSE)
                  ELSE /\ bitmap' = MarkAllocated(bitmap, ino)
                       /\ Proceed(t, [IdleThread EXCEPT
                                         !.op = "CreateRoot", !.pc = "lock",
                                         !.inode_no = ino,
                                         !.pending = <<LockRequest(ino, "Exclusive")>>])
                       /\ UNCHANGED <<inode_table, path_kv, slots, pages>>
    /\ UNCHANGED nonMdsVars

\* MdsServer::CreateRoot under the lock
CreateRootBody(t) ==
    /\ th[t].pc = "body"
    /\ th[t].op = "CreateRoot"
    /\ LET ino == th[t].inode_no
           self_entry == DirEntry(".", ino, "Directory")
           parent_entry == DirEntry("..", ino, "Directory")
           pg1 == DirAdd(pages, ino, self_entry)
           pg2 == DirAdd(pg1, ino, parent_entry)
       IN IF ~DirAddOk(pages, ino, self_entry)
          THEN ReturnUnlock(t, FALSE) /\ UNCHANGED fsVars
          ELSE IF ~DirAddOk(pg1, ino, parent_entry)
          THEN /\ ReturnUnlock(t, FALSE)
               /\ pages' = pg1
               /\ UNCHANGED <<inode_table, path_kv, bitmap, slots>>
          ELSE /\ ReturnUnlock(t, TRUE)
               /\ pages' = pg2
               /\ slots' = WriteInode(slots, ino, InodeOf(ino, "Directory", RootPath))
               /\ inode_table' = MapPut(inode_table, RootPath, ino)
               /\ UNCHANGED <<path_kv, bitmap>>
    /\ UNCHANGED nonMdsVars

\* MdsServer::Mkdir up to the lock
MkdirBegin(t, path) ==
    /\ th[t].pc = "idle"
    /\ Allowed(t, "Mkdir", path)
    /\ LET parent_ino == LookupIno(inode_table, path_kv, slots, ParentPath(path))
       IN IF BadPath(path) THEN ReturnEarly(t, FALSE)
          ELSE IF parent_ino = InvalidIno THEN ReturnEarly(t, FALSE)
          ELSE IF path \in DOMAIN inode_table THEN ReturnEarly(t, FALSE)
          ELSE /\ SlotLeft
               /\ Proceed(t, [IdleThread EXCEPT
                                 !.op = "Mkdir", !.path = path, !.pc = "lock",
                                 !.parent_ino = parent_ino,
                                 !.parent_inode = ReadInode(slots, parent_ino),
                                 !.pending = <<LockRequest(parent_ino, "Exclusive")>>])
               /\ UNCHANGED fsVars
    /\ UNCHANGED nonMdsVars

\* MdsServer::Mkdir under the parent's lock
MkdirBody(t) ==
    /\ th[t].pc = "body"
    /\ th[t].op = "Mkdir"
    /\ LET path == th[t].path
           parent_ino == th[t].parent_ino
           new_inode == AllocateInode(bitmap)
           self_entry == DirEntry(".", new_inode, "Directory")
           parent_entry == DirEntry("..", parent_ino, "Directory")
           new_dir_entry == DirEntry(BaseName(path), new_inode, "Directory")
           pg1 == DirAdd(pages, new_inode, self_entry)
           pg2 == DirAdd(pg1, new_inode, parent_entry)
           pg3 == DirAdd(pg2, parent_ino, new_dir_entry)
           sl1 == WriteInode(slots, new_inode, InodeOf(new_inode, "Directory", path))
           sl2 == WriteInode(sl1, parent_ino, th[t].parent_inode)
       IN /\ bitmap' = MarkAllocated(bitmap, new_inode)
          /\ IF new_inode = 0
             THEN /\ ReturnUnlock(t, FALSE)
                  /\ UNCHANGED <<inode_table, path_kv, slots, pages>>
             ELSE IF ~DirAddOk(pages, new_inode, self_entry)
             THEN /\ ReturnUnlock(t, FALSE)
                  /\ UNCHANGED <<inode_table, path_kv, slots, pages>>
             ELSE IF ~DirAddOk(pg1, new_inode, parent_entry)
             THEN /\ ReturnUnlock(t, FALSE)
                  /\ pages' = pg1
                  /\ UNCHANGED <<inode_table, path_kv, slots>>
             ELSE IF ~DirAddOk(pg2, parent_ino, new_dir_entry)
             THEN /\ ReturnUnlock(t, FALSE)
                  /\ pages' = pg2
                  /\ UNCHANGED <<inode_table, path_kv, slots>>
             ELSE \E written \in WriteInodeOk(new_inode) :
                  IF ~written
                  THEN /\ ReturnUnlock(t, FALSE)
                       /\ pages' = pg3
                       /\ UNCHANGED <<inode_table, path_kv, slots>>
                  ELSE /\ ReturnUnlock(t, TRUE)
                       /\ pages' = pg3
                       /\ slots' = sl2
                       /\ path_kv' = MapPut(path_kv, path, new_inode)
                       /\ inode_table' = MapPut(inode_table, path, new_inode)
    /\ UNCHANGED nonMdsVars

\* MdsServer::Rmdir: LookupIno(path), read_inode and the path checks
RmdirBegin(t, path) ==
    /\ th[t].pc = "idle"
    /\ Allowed(t, "Rmdir", path)
    /\ LET inode_no == LookupIno(inode_table, path_kv, slots, path)
       IN IF inode_no = InvalidIno THEN ReturnEarly(t, FALSE)
          ELSE IF ~ReadInodeOk(slots, inode_no) THEN ReturnEarly(t, FALSE)
          ELSE IF BadPath(path) THEN ReturnEarly(t, FALSE)
          ELSE /\ Proceed(t, [IdleThread EXCEPT
                                 !.op = "Rmdir", !.path = path, !.pc = "lookup",
                                 !.inode_no = inode_no])
               /\ UNCHANGED fsVars
    /\ UNCHANGED nonMdsVars

\* MdsServer::Rmdir: LookupIno(parent_path) and the lock requests
RmdirLookupParent(t) ==
    /\ th[t].pc = "lookup"
    /\ th[t].op = "Rmdir"
    /\ LET parent_ino == LookupIno(inode_table, path_kv, slots, ParentPath(th[t].path))
       IN th' = [th EXCEPT ![t] =
                    IF parent_ino = InvalidIno THEN Returned(FALSE)
                    ELSE [@ EXCEPT !.pc = "lock",
                                   !.parent_ino = parent_ino,
                                   !.pending = AcquireDirectoryLocks(
                                       <<LockRequest(parent_ino, "Exclusive"),
                                         LockRequest(th[t].inode_no, "Exclusive")>>)]]
    /\ UNCHANGED <<fsVars, held, race, ops, observer, nonMdsVars>>

\* MdsServer::Rmdir under the locks
RmdirBody(t) ==
    /\ th[t].pc = "body"
    /\ th[t].op = "Rmdir"
    /\ LET path == th[t].path
           inode_no == th[t].inode_no
           parent_ino == th[t].parent_ino
           entries == pages[inode_no]
           non_dot == Cardinality({i \in 1..Len(entries) :
                                      entries[i].name \notin {".", ".."}})
       IN IF non_dot > 0 \/ ~DirRemoveOk(pages, parent_ino, BaseName(path))
          THEN ReturnUnlock(t, FALSE) /\ UNCHANGED fsVars
          ELSE /\ ReturnUnlock(t, TRUE)
               /\ pages' = DirReset(DirRemove(pages, parent_ino, BaseName(path)), inode_no)
               /\ inode_table' = MapErase(inode_table, path)
               /\ path_kv' = MapErase(path_kv, path)
               /\ bitmap' = bitmap \ {inode_no}
               /\ UNCHANGED slots
    /\ UNCHANGED nonMdsVars

\* MdsServer::CreateFile up to the lock
CreateFileBegin(t, path) ==
    /\ th[t].pc = "idle"
    /\ Allowed(t, "CreateFile", path)
    /\ LET parent_ino == LookupIno(inode_table, path_kv, slots, ParentPath(path))
       IN IF LookupIno(inode_table, path_kv, slots, path) # InvalidIno
          THEN ReturnEarly(t, FALSE)
          ELSE IF BadPath(path) THEN ReturnEarly(t, FALSE)
          ELSE IF parent_ino = InvalidIno THEN ReturnEarly(t, FALSE)
          ELSE /\ SlotLeft
               /\ Proceed(t, [IdleThread EXCEPT
                                 !.op = "CreateFile", !.path = path, !.pc = "lock",
                                 !.parent_ino = parent_ino,
                                 !.pending = <<LockRequest(parent_ino, "Exclusive")>>])
               /\ UNCHANGED fsVars
    /\ UNCHANGED nonMdsVars

\* MdsServer::CreateFile under the parent's lock
CreateFileBody(t) ==
    /\ th[t].pc = "body"
    /\ th[t].op = "CreateFile"
    /\ LET path == th[t].path
           parent_ino == th[t].parent_ino
           new_inode == AllocateInode(bitmap)
           file_entry == DirEntry(BaseName(path), new_inode, "Regular")
       IN /\ bitmap' = MarkAllocated(bitmap, new_inode)
          /\ IF new_inode = InvalidIno
             THEN /\ ReturnUnlock(t, FALSE)
                  /\ UNCHANGED <<inode_table, path_kv, slots, pages>>
             ELSE IF ~DirAddOk(pages, parent_ino, file_entry)
             THEN /\ ReturnUnlock(t, FALSE)
                  /\ UNCHANGED <<inode_table, path_kv, slots, pages>>
             ELSE /\ ReturnUnlock(t, TRUE)
                  /\ pages' = DirAdd(pages, parent_ino, file_entry)
                  /\ slots' = WriteInode(slots, new_inode, InodeOf(new_inode, "Regular", path))
                  /\ path_kv' = MapPut(path_kv, path, new_inode)
                  /\ inode_table' = MapPut(inode_table, path, new_inode)
    /\ UNCHANGED nonMdsVars

\* MdsServiceImpl::RemoveFile / RpcMdsServer::RemoveFile: the handler looks
\* the path up, then calls MdsServer::RemoveFile; on success it reports the
\* inode it looked up as detached
RpcRemoveFile(t, path) ==
    /\ race.phase = "rpc"
    /\ th[t].pc = "idle"
    /\ th' = [th EXCEPT ![t] = [IdleThread EXCEPT
                 !.op = "RemoveFile", !.path = path, !.pc = "rpc",
                 !.rpc_ino = LookupIno(inode_table, path_kv, slots, path)]]
    /\ UNCHANGED <<fsVars, held, race, ops, observer, nonMdsVars>>

\* response->add_detached_inodes(ino) when ok && ino != -1
DetachedInodes(rec) == {rec.rpc_ino} \ {InvalidIno}

\* MdsServer::RemoveFile: LookupIno(path), read_inode and the path checks
RemoveFileBegin(t, path) ==
    /\ \/ th[t].pc = "idle" /\ Allowed(t, "RemoveFile", path)
       \/ th[t].pc = "rpc" /\ th[t].path = path
    /\ LET inode_no == LookupIno(inode_table, path_kv, slots, path)
       IN IF inode_no = InvalidIno THEN ReturnEarly(t, FALSE)
          ELSE IF ~ReadInodeOk(slots, inode_no) THEN ReturnEarly(t, FALSE)
          ELSE IF BadPath(path) THEN ReturnEarly(t, FALSE)
          ELSE /\ Proceed(t, [IdleThread EXCEPT
                                 !.op = "RemoveFile", !.path = path, !.pc = "lookup",
                                 !.inode_no = inode_no,
                                 !.inode = ReadInode(slots, inode_no),
                                 !.rpc_ino = th[t].rpc_ino])
               /\ UNCHANGED fsVars
    /\ UNCHANGED nonMdsVars

\* MdsServer::RemoveFile: LookupIno(parent_path) and the lock request
RemoveFileLookupParent(t) ==
    /\ th[t].pc = "lookup"
    /\ th[t].op = "RemoveFile"
    /\ LET parent_ino == LookupIno(inode_table, path_kv, slots, ParentPath(th[t].path))
       IN th' = [th EXCEPT ![t] =
                    IF parent_ino = InvalidIno THEN Returned(FALSE)
                    ELSE [@ EXCEPT !.pc = "lock",
                                   !.parent_ino = parent_ino,
                                   !.pending = <<LockRequest(parent_ino, "Exclusive")>>]]
    /\ UNCHANGED <<fsVars, held, race, ops, observer, nonMdsVars>>

\* MdsServer::RemoveFile under the parent's lock
RemoveFileBody(t) ==
    /\ th[t].pc = "body"
    /\ th[t].op = "RemoveFile"
    /\ LET path == th[t].path
           parent_ino == th[t].parent_ino
       IN IF ~DirRemoveOk(pages, parent_ino, BaseName(path))
          THEN ReturnUnlock(t, FALSE) /\ UNCHANGED fsVars
          ELSE /\ th' = [th EXCEPT ![t] = Returned(TRUE)]
               /\ held' = [held EXCEPT ![t] = {}]
               /\ UNCHANGED <<race, ops>>
               /\ observer' = NotifyHandleObserver(observer, t, th[t].inode.inode)
               /\ pages' = DirRemove(pages, parent_ino, BaseName(path))
               /\ inode_table' = MapErase(inode_table, path)
               /\ path_kv' = MapErase(path_kv, path)
               /\ bitmap' = bitmap \ {th[t].inode_no}
               /\ UNCHANGED slots
    /\ UNCHANGED nonMdsVars

\* MdsServer::TruncateFile: FindInodeByPath
TruncateFileBegin(t, path) ==
    /\ th[t].pc = "idle"
    /\ race.phase = "obs"
    /\ LET inode == FindInode(inode_table, path_kv, slots, path)
       IN IF inode = NullInode THEN ReturnEarly(t, FALSE)
          ELSE /\ Proceed(t, [IdleThread EXCEPT
                                 !.op = "TruncateFile", !.path = path,
                                 !.pc = "truncate", !.inode = inode])
               /\ UNCHANGED fsVars
    /\ UNCHANGED nonMdsVars

\* MdsServer::TruncateFile: the blocks are released and the size set to 0
\* (neither is part of the inode kept here), the observer is notified and
\* the inode is written back; the call returns what write_inode returns
TruncateFileBody(t) ==
    /\ th[t].pc = "truncate"
    /\ LET inode == th[t].inode
       IN /\ observer' = NotifyHandleObserver(observer, t, inode.inode)
          /\ \E written \in WriteInodeOk(inode.inode) :
                /\ th' = [th EXCEPT ![t] = Returned(written)]
                /\ slots' = IF written THEN WriteInode(slots, inode.inode, inode)
                                       ELSE slots
    /\ UNCHANGED <<inode_table, path_kv, bitmap, pages, held, race, ops, nonMdsVars>>

\* MdsServer::Ls up to the lock of ReadDirectoryEntries
LsBegin(t, path) ==
    /\ th[t].pc = "idle"
    /\ Allowed(t, "Ls", path)
    /\ LET ino == LookupIno(inode_table, path_kv, slots, path)
           inode == ReadInode(slots, ino)
       IN IF ino = InvalidIno THEN ReturnEarly(t, FALSE)
          ELSE IF ~ReadInodeOk(slots, ino) THEN ReturnEarly(t, FALSE)
          ELSE IF inode.file_type # "Directory" THEN ReturnEarly(t, FALSE)
          ELSE /\ Proceed(t, [IdleThread EXCEPT
                                 !.op = "Ls", !.path = path, !.pc = "lock",
                                 !.inode_no = inode.inode,
                                 !.pending = <<LockRequest(inode.inode, "Shared")>>])
               /\ UNCHANGED fsVars
    /\ UNCHANGED nonMdsVars

\* MdsServer::Ls / ReadDirectoryEntries under the directory's shared lock
LsBody(t) ==
    /\ th[t].pc = "body"
    /\ th[t].op = "Ls"
    /\ ReturnUnlock(t, TRUE)
    /\ UNCHANGED <<fsVars, nonMdsVars>>

MdsNext ==
    \/ \E t \in Threads : AcquireLock(t)
    \/ \E t \in Threads : CreateRootBegin(t)
    \/ \E t \in Threads : CreateRootBody(t)
    \/ \E t \in Threads, path \in Paths : MkdirBegin(t, path)
    \/ \E t \in Threads : MkdirBody(t)
    \/ \E t \in Threads, path \in Paths : RmdirBegin(t, path)
    \/ \E t \in Threads : RmdirLookupParent(t)
    \/ \E t \in Threads : RmdirBody(t)
    \/ \E t \in Threads, path \in Paths : CreateFileBegin(t, path)
    \/ \E t \in Threads : CreateFileBody(t)
    \/ \E t \in Threads, path \in Paths : RemoveFileBegin(t, path)
    \/ \E t \in Threads : RemoveFileLookupParent(t)
    \/ \E t \in Threads : RemoveFileBody(t)
    \/ \E t \in Threads, path \in Paths : LsBegin(t, path)
    \/ \E t \in Threads : LsBody(t)

\* The mkdir/mkdir scenario: the namespace has been prepared, parent is an
\* existing directory, the two names are not bound in it, and two calls of
\* Mkdir are about to run side by side.
StartRace(parent, a, b) ==
    /\ race.phase = "setup"
    /\ \A t \in Threads : th[t].pc = "idle"
    /\ a # b
    /\ Append(parent, a) \in Paths
    /\ Append(parent, b) \in Paths
    /\ parent \in DOMAIN inode_table
    /\ ReadInode(slots, inode_table[parent]).file_type = "Directory"
    /\ \A n \in {a, b} :
          /\ LookupIno(inode_table, path_kv, slots, Append(parent, n)) = InvalidIno
          /\ ~HasName(pages[inode_table[parent]], n)
    /\ Cardinality(FreeInos) >= 2
    /\ race' = [phase |-> "race", parent |-> parent,
                todo |-> (1 :> Append(parent, a)) @@ (2 :> Append(parent, b)),
                paths |-> (1 :> Append(parent, a)) @@ (2 :> Append(parent, b))]
    /\ th' = [t \in Threads |-> IdleThread]
    /\ ops' = 0
    /\ UNCHANGED <<fsVars, held, observer, nonMdsVars>>

MdsRaceInit ==
    /\ inode_table = EmptyMap
    /\ path_kv = EmptyMap
    /\ bitmap = {}
    /\ slots = EmptyMap
    /\ pages = [i \in PageKeys |-> <<>>]
    /\ held = [t \in Threads |-> {}]
    /\ th = [t \in Threads |-> IdleThread]
    /\ race = [phase |-> "setup", parent |-> RootPath, todo |-> EmptyMap, paths |-> EmptyMap]
    /\ ops = 0
    /\ observer = NoObserver

\* An MdsServer whose allocator has MaxInodes slots and cannot grow; one
\* caller
MdsFullInit ==
    /\ inode_table = EmptyMap
    /\ path_kv = EmptyMap
    /\ bitmap = {}
    /\ slots = EmptyMap
    /\ pages = [i \in PageKeys |-> <<>>]
    /\ held = [t \in Threads |-> {}]
    /\ th = [t \in Threads |-> IdleThread]
    /\ race = [phase |-> "full", parent |-> RootPath, todo |-> EmptyMap, paths |-> EmptyMap]
    /\ ops = 0
    /\ observer = NoObserver

\* The MDS behind its service: create_root, create_file, and remove_file
\* through the handler that reports the detached inode
MdsRpcInit ==
    /\ inode_table = EmptyMap
    /\ path_kv = EmptyMap
    /\ bitmap = {}
    /\ slots = EmptyMap
    /\ pages = [i \in PageKeys |-> <<>>]
    /\ held = [t \in Threads |-> {}]
    /\ th = [t \in Threads |-> IdleThread]
    /\ race = [phase |-> "rpc", parent |-> RootPath, todo |-> EmptyMap, paths |-> EmptyMap]
    /\ ops = 0
    /\ observer = NoObserver

MdsRpcNext ==
    \/ \E t \in Threads : AcquireLock(t)
    \/ \E t \in Threads : CreateRootBegin(t)
    \/ \E t \in Threads : CreateRootBody(t)
    \/ \E t \in Threads, path \in Paths : CreateFileBegin(t, path)
    \/ \E t \in Threads : CreateFileBody(t)
    \/ \E t \in Threads, path \in Paths : RpcRemoveFile(t, path)
    \/ \E t \in Threads, path \in Paths : RemoveFileBegin(t, path)
    \/ \E t \in Threads : RemoveFileLookupParent(t)
    \/ \E t \in Threads : RemoveFileBody(t)

\* An MdsServer with a handle observer registered: files are created,
\* removed and truncated
MdsObsInit ==
    /\ inode_table = EmptyMap
    /\ path_kv = EmptyMap
    /\ bitmap = {}
    /\ slots = EmptyMap
    /\ pages = [i \in PageKeys |-> <<>>]
    /\ held = [t \in Threads |-> {}]
    /\ th = [t \in Threads |-> IdleThread]
    /\ race = [phase |-> "obs", parent |-> RootPath, todo |-> EmptyMap, paths |-> EmptyMap]
    /\ ops = 0
    /\ observer = RegisteredObserver

MdsObsNext ==
    \/ \E t \in Threads : AcquireLock(t)
    \/ \E t \in Threads : CreateRootBegin(t)
    \/ \E t \in Threads : CreateRootBody(t)
    \/ \E t \in Threads, path \in Paths : CreateFileBegin(t, path)
    \/ \E t \in Threads : CreateFileBody(t)
    \/ \E t \in Threads, path \in Paths : RemoveFileBegin(t, path)
    \/ \E t \in Threads : RemoveFileLookupParent(t)
    \/ \E t \in Threads : RemoveFileBody(t)
    \/ \E t \in Threads, path \in Paths : TruncateFileBegin(t, path)
    \/ \E t \in Threads : TruncateFileBody(t)

MdsRaceNext ==
    \/ MdsNext
    \/ \E parent \in Paths, a, b \in {"a", "b"} : StartRace(parent, a, b)

(***************************************************************************)
(* VirtualNodeLedger, InodeBatchMonitor, VirtualNodeController             *)
(***************************************************************************)
\* node ids are a class prefix and an index: "node_ssd_" + std::to_string(i)
EmptyId == <<>>
Prefixes == <<"node_ssd_", "node_hdd_", "node_mix_">>

\* a JSON key that is not there
Absent == -1
\* offsets_ has no entry for the batch file; the checkpoint file does not exist
NoOffset == -1

EmptyDevice(capacity_bytes) ==
    [capacity |-> capacity_bytes, used |-> 0, free |-> capacity_bytes]

InitEmpty(ssd_nodes, hdd_nodes, mix_nodes, capacity_bytes) ==
    LET ssd == {<<"node_ssd_", i>> : i \in 0..(ssd_nodes - 1)}
        hdd == {<<"node_hdd_", i>> : i \in 0..(hdd_nodes - 1)}
        mix == {<<"node_mix_", i>> : i \in 0..(mix_nodes - 1)}
        ssd_cap == capacity_bytes \div 2
        hdd_cap == capacity_bytes - ssd_cap
    IN  [nodes |->
            [id \in ssd \cup hdd \cup mix |->
                IF id \in ssd
                THEN [type |-> 0,
                      ssd_devices |-> <<EmptyDevice(capacity_bytes)>>,
                      hdd_devices |-> <<>>]
                ELSE IF id \in hdd
                THEN [type |-> 1,
                      ssd_devices |-> <<>>,
                      hdd_devices |-> <<EmptyDevice(capacity_bytes)>>]
                ELSE [type |-> 2,
                      ssd_devices |-> <<EmptyDevice(ssd_cap)>>,
                      hdd_devices |-> <<EmptyDevice(hdd_cap)>>]],
         dirty |-> FALSE]

\* load_devices: one device of the JSON list
LoadDevice(dev_j) ==
    LET capacity == dev_j.capacity
        used == IF dev_j.used_bytes # Absent THEN dev_j.used_bytes ELSE 0
        free == IF dev_j.free_bytes # Absent THEN dev_j.free_bytes
                ELSE IF capacity > used THEN capacity - used ELSE 0
    IN  [capacity |-> capacity,
         used |-> IF used > capacity THEN capacity ELSE used,
         free |-> IF free > capacity THEN capacity ELSE free]

LoadFromJson(root) ==
    [nodes |->
        [id \in DOMAIN root \ {EmptyId} |->
            [type |-> root[id].type,
             ssd_devices |-> [i \in DOMAIN root[id].ssd_devices |->
                                LoadDevice(root[id].ssd_devices[i])],
             hdd_devices |-> [i \in DOMAIN root[id].hdd_devices |->
                                LoadDevice(root[id].hdd_devices[i])]]],
     dirty |-> FALSE]

DumpDevice(dev) ==
    [capacity |-> dev.capacity, used_bytes |-> dev.used, free_bytes |-> dev.free]

SnapshotToJson(nodes_) ==
    [id \in DOMAIN nodes_ |->
        [type |-> nodes_[id].type,
         ssd_devices |-> [i \in DOMAIN nodes_[id].ssd_devices |->
                            DumpDevice(nodes_[id].ssd_devices[i])],
         hdd_devices |-> [i \in DOMAIN nodes_[id].hdd_devices |->
                            DumpDevice(nodes_[id].hdd_devices[i])]]]

\* RebuildIndex: ssd_nodes_, hdd_nodes_ or mix_nodes_, the ids of one type at
\* the index their name carries, the other places empty
TypeList(nodes_, type) ==
    LET prefix == Prefixes[IF type > 1 THEN 3 ELSE type + 1]
        parsed == {id \in DOMAIN nodes_ :
                      /\ (IF nodes_[id].type \in {0, 1} THEN nodes_[id].type ELSE 2)
                            = (IF type > 1 THEN 2 ELSE type)
                      /\ id[1] = prefix}
        size == IF parsed = {} THEN 0
                ELSE 1 + CHOOSE m \in {id[2] : id \in parsed} :
                            \A id \in parsed : id[2] <= m
    IN  [i \in 1..size |->
            IF \E id \in parsed : id[2] = i - 1
            THEN CHOOSE id \in parsed : id[2] = i - 1
            ELSE EmptyId]

\* ResolveNodeId: the last resort is the first key of nodes_, an unordered_map
ResolveNodeId(nodes_, idx, type) ==
    LET list == TypeList(nodes_, type)
        filled == {i \in 1..Len(list) : list[i] # EmptyId}
    IN  IF idx < Len(list) /\ list[idx + 1] # EmptyId
        THEN {list[idx + 1]}
        ELSE IF filled # {}
        THEN {list[CHOOSE i \in filled : \A j \in filled : i <= j]}
        ELSE IF DOMAIN nodes_ \ {EmptyId} # {}
        THEN DOMAIN nodes_ \ {EmptyId}
        ELSE {EmptyId}

\* the consume lambda of ApplyInode
RECURSIVE Consume(_, _)
Consume(devices, remaining) ==
    IF devices = <<>> \/ remaining = 0
    THEN [devices |-> devices, remaining |-> remaining]
    ELSE LET dev == Head(devices)
             take == IF dev.free < remaining THEN dev.free ELSE remaining
             rest == Consume(Tail(devices), remaining - take)
         IN  [devices |-> <<[dev EXCEPT !.free = @ - take, !.used = @ + take]>>
                            \o rest.devices,
              remaining |-> rest.remaining]

\* ApplyInode, for the node id that ResolveNodeId gave
ApplyInode(l, inode, node_id) ==
    LET type == inode.node_type % 4
        bytes == inode.size
    IN  IF node_id = EmptyId THEN [ledger |-> l, ok |-> FALSE]
        ELSE IF bytes = 0 THEN [ledger |-> l, ok |-> TRUE]
        ELSE IF node_id \notin DOMAIN l.nodes THEN [ledger |-> l, ok |-> FALSE]
        ELSE LET node == l.nodes[node_id]
                 c1 == Consume(IF type = 1 THEN node.hdd_devices
                               ELSE node.ssd_devices, bytes)
                 c2 == Consume(IF type = 1 THEN node.ssd_devices
                               ELSE node.hdd_devices, c1.remaining)
                 after == IF type = 1
                          THEN [node EXCEPT !.hdd_devices = c1.devices,
                                            !.ssd_devices = c2.devices]
                          ELSE [node EXCEPT !.ssd_devices = c1.devices,
                                            !.hdd_devices = c2.devices]
             IN  [ledger |-> [nodes |-> [l.nodes EXCEPT ![node_id] = after],
                              dirty |-> l.dirty \/ c2.remaining # bytes],
                  ok |-> c2.remaining = 0]

RECURSIVE SumCapacity(_)
SumCapacity(devices) ==
    IF devices = <<>> THEN 0
    ELSE Head(devices).capacity + SumCapacity(Tail(devices))

RECURSIVE SumFree(_)
SumFree(devices) ==
    IF devices = <<>> THEN 0 ELSE Head(devices).free + SumFree(Tail(devices))

GetNodeCapacity(nodes_, node_id) ==
    [total |-> SumCapacity(nodes_[node_id].ssd_devices)
                 + SumCapacity(nodes_[node_id].hdd_devices),
     free |-> SumFree(nodes_[node_id].ssd_devices)
                 + SumFree(nodes_[node_id].hdd_devices)]

\* the slot loop of ProcessFile: every way it can end, as ledger and touched
RECURSIVE ProcessSlots(_, _, _)
ProcessSlots(l, touched, file_slots) ==
    IF file_slots = <<>> THEN {[ledger |-> l, touched |-> touched]}
    ELSE LET inode == Head(file_slots)
         IN  IF ~inode.valid
             THEN ProcessSlots(l, touched, Tail(file_slots))
             ELSE UNION {
                    LET r == ApplyInode(l, inode, node_id)
                    IN  ProcessSlots(r.ledger,
                                     IF r.ok /\ node_id # EmptyId
                                     THEN touched \cup {node_id} ELSE touched,
                                     Tail(file_slots)) :
                    node_id \in ResolveNodeId(l.nodes, inode.node_id,
                                              inode.node_type % 4)}

\* the inode slots a batch file can hold
InodeSlots ==
    [valid : {TRUE}, node_type : 0..2, node_id : 0..MaxIdx, size : 0..MaxBytes]
        \cup {[valid |-> FALSE, node_type |-> 0, node_id |-> 0, size |-> 0]}

\* the nodes JSON files an operator can hand to the SRM
JsonDevices ==
    [capacity : {CapacityBytes},
     used_bytes : {Absent} \cup 0..(CapacityBytes + 1),
     free_bytes : {Absent} \cup 0..(CapacityBytes + 1)]

JsonInputs ==
    {[id \in {<<"node_ssd_", 0>>} |->
        [type |-> 0, ssd_devices |-> <<dev_j>>, hdd_devices |-> <<>>]] :
     dev_j \in JsonDevices}

NoJson == [id \in {} |-> 0]

FreshMonitor(offsets_, runs) ==
    [pc |-> "scan", offsets |-> offsets_, checkpoint_dirty |-> FALSE,
     updated |-> {}, runs |-> runs]

\* main(): build the ledger from the nodes JSON or empty, start the monitor
BuildLedger(flags, json) ==
    IF flags.virtual_nodes_json THEN LoadFromJson(json)
    ELSE InitEmpty(flags.ssd_nodes, flags.hdd_nodes, flags.mix_nodes,
                   CapacityBytes)

EmptyFlags ==
    {f \in [virtual_nodes_json : {FALSE}, snapshot_to_json : {FALSE},
            ssd_nodes : 0..MaxSsdNodes, hdd_nodes : 0..MaxHddNodes,
            mix_nodes : 0..MaxMixNodes] :
        f.ssd_nodes > 0 \/ f.hdd_nodes > 0 \/ f.mix_nodes > 0}

JsonFlags ==
    [virtual_nodes_json : {TRUE}, snapshot_to_json : BOOLEAN,
     ssd_nodes : {0}, hdd_nodes : {0}, mix_nodes : {0}]

LedgerInit ==
    /\ vflags \in EmptyFlags \cup JsonFlags
    /\ \E json \in IF vflags.virtual_nodes_json THEN JsonInputs ELSE {NoJson} :
          /\ vfiles = [json |-> json, batch |-> <<>>, checkpoint |-> NoOffset]
          /\ ledger = BuildLedger(vflags, json)
    /\ monitor = FreshMonitor(NoOffset, 0)
    /\ applied = [ledger |-> 0, json |-> 0]

LedgerIdle ==
    /\ vflags = [virtual_nodes_json |-> FALSE, snapshot_to_json |-> FALSE,
                 ssd_nodes |-> 0, hdd_nodes |-> 0, mix_nodes |-> 0]
    /\ vfiles = [json |-> NoJson, batch |-> <<>>, checkpoint |-> NoOffset]
    /\ ledger = [nodes |-> NoJson, dirty |-> FALSE]
    /\ monitor = [pc |-> "none", offsets |-> NoOffset,
                  checkpoint_dirty |-> FALSE, updated |-> {}, runs |-> 0]
    /\ applied = [ledger |-> 0, json |-> 0]

\* the MDS appends one inode slot to the batch file
AppendSlot(inode) ==
    /\ monitor.pc # "none"
    /\ Len(vfiles.batch) < MaxSlots
    /\ vfiles' = [vfiles EXCEPT !.batch = Append(@, inode)]
    /\ UNCHANGED <<vflags, ledger, monitor, applied, nonLedgerVars>>

\* A ProcessFile that starts at the head of the file whatever offsets_ holds:
\* the variant C33 must tell apart from the code.
StartOffset_Head(offsets_, file_size) == 0

\* ProcessFile: where reading starts, in slots
StartOffset(offsets_, file_size) ==
    LET offset == IF offsets_ = NoOffset THEN 0 ELSE offsets_
    IN  IF offset > file_size THEN 0 ELSE offset

\* Loop: ScanOnce over the batch file, then on_update_ with the touched ids.
\* The slot loop of ProcessFile ends at the end of the file or, when reads
\* can fail, at the first in.read that does not deliver a whole slot;
\* offsets_ is set to where it ended.
Scan(reads_fail) ==
    /\ monitor.pc = "scan"
    /\ LET file_size == Len(vfiles.batch)
           offset == StartOffset(monitor.offsets, file_size)
       IN  IF file_size = 0 \/ offset >= file_size
           THEN /\ monitor' = [monitor EXCEPT !.pc = "save", !.updated = {}]
                /\ UNCHANGED <<ledger, applied>>
           ELSE \E read \in (IF reads_fail THEN 0..(file_size - offset)
                               ELSE {file_size - offset}) :
                \E r \in ProcessSlots(ledger, {},
                                      SubSeq(vfiles.batch, offset + 1, offset + read)) :
                  /\ ledger' = r.ledger
                  /\ monitor' = [monitor EXCEPT !.pc = "save",
                                                !.offsets = offset + read,
                                                !.checkpoint_dirty = TRUE,
                                                !.updated = r.touched]
                  /\ applied' = [applied EXCEPT
                                    !.ledger = IF offset + read > @
                                               THEN offset + read ELSE @]
    /\ UNCHANGED <<vflags, vfiles, nonLedgerVars>>

\* a scan on a disk whose reads succeed
ScanOnce == Scan(FALSE)

\* a scan on a disk whose reads can fail
ScanOnceIo == Scan(TRUE)

\* Loop: SaveCheckpoint when checkpoint_dirty_; the file may fail to open
SaveCheckpoint ==
    /\ monitor.pc = "save"
    /\ IF monitor.checkpoint_dirty
       THEN \E opened \in BOOLEAN :
              IF opened
              THEN /\ vfiles' = [vfiles EXCEPT !.checkpoint = monitor.offsets]
                   /\ monitor' = [monitor EXCEPT !.pc = "scan",
                                                 !.checkpoint_dirty = FALSE]
              ELSE /\ monitor' = [monitor EXCEPT !.pc = "scan"]
                   /\ UNCHANGED vfiles
       ELSE /\ monitor' = [monitor EXCEPT !.pc = "scan"]
            /\ UNCHANGED vfiles
    /\ UNCHANGED <<vflags, ledger, applied, nonLedgerVars>>

\* SnapshotLoop: TakeDirty, then SnapshotToJson, which may fail to write
SnapshotLoop ==
    /\ monitor.pc # "none"
    /\ ledger.dirty
    /\ ledger' = [ledger EXCEPT !.dirty = FALSE]
    /\ \E written \in BOOLEAN :
          IF written /\ vflags.snapshot_to_json
          THEN /\ vfiles' = [vfiles EXCEPT !.json = SnapshotToJson(ledger.nodes)]
               /\ applied' = [applied EXCEPT !.json = applied.ledger]
          ELSE UNCHANGED <<vfiles, applied>>
    /\ UNCHANGED <<vflags, monitor, nonLedgerVars>>

\* the SRM process ends at any point and main() runs again on the same files
RestartSrm ==
    /\ monitor.pc # "none"
    /\ monitor.runs < MaxSrmRuns
    /\ ledger' = BuildLedger(vflags, vfiles.json)
    /\ monitor' = FreshMonitor(vfiles.checkpoint, monitor.runs + 1)
    /\ applied' = [applied EXCEPT
                      !.ledger = IF vflags.virtual_nodes_json THEN applied.json ELSE 0]
    /\ UNCHANGED <<vflags, vfiles, nonLedgerVars>>

LedgerNext ==
    \/ \E inode \in InodeSlots : AppendSlot(inode)
    \/ ScanOnce
    \/ SaveCheckpoint
    \/ SnapshotLoop
    \/ RestartSrm

\* the nodes JSON of a fresh cluster: one SSD node, nothing used
FreshJson ==
    [id \in {<<"node_ssd_", 0>>} |->
        [type |-> 0,
         ssd_devices |-> <<[capacity |-> CapacityBytes, used_bytes |-> 0,
                            free_bytes |-> CapacityBytes]>>,
         hdd_devices |-> <<>>]]

\* the SRM started on a fresh cluster: built from the JSON above, or empty
\* with one node of each class
ScanInit ==
    /\ LedgerInit
    /\ vflags.virtual_nodes_json => vfiles.json = FreshJson
    /\ ~vflags.virtual_nodes_json =>
          vflags.ssd_nodes = 1 /\ vflags.hdd_nodes = 1 /\ vflags.mix_nodes = 1

ScanNext ==
    \/ \E inode \in InodeSlots : AppendSlot(inode)
    \/ ScanOnceIo
    \/ SaveCheckpoint
    \/ SnapshotLoop
    \/ RestartSrm

(***************************************************************************)
(* IOEngine: the cache of open file descriptors                            *)
(***************************************************************************)
\* MakeKey(path, cache_flags) of the files the callers work on
FdKeys == {"a#0", "b#0", "c#0"}

NoEntries == [k \in {} |-> 0]

\* the constructor: max_open_files 0 becomes 1
IOEngineOptions(max) == IF max = 0 THEN 1 ELSE max

\* lru_.splice(lru_.begin(), lru_, it): the key moves to the front
SpliceFront(l, key) ==
    <<key>> \o SelectSeq(l, LAMBDA k : k # key)

\* An eviction that closes the least recently used entries whatever their
\* refcount: the variant C31 must tell apart from the code.
RECURSIVE EvictIfNeeded_AnyRef(_, _, _)
EvictIfNeeded_AnyRef(cache, l, max) ==
    IF Cardinality(DOMAIN cache) > max /\ l # <<>>
    THEN LET victim == l[Len(l)]
         IN  EvictIfNeeded_AnyRef([k \in DOMAIN cache \ {victim} |-> cache[k]],
                                  SubSeq(l, 1, Len(l) - 1), max)
    ELSE [fd_cache |-> cache, lru |-> l]

RECURSIVE EvictIfNeeded(_, _, _)
EvictIfNeeded(cache, l, max) ==
    IF Cardinality(DOMAIN cache) > max /\ l # <<>>
    THEN LET victim == l[Len(l)]
             popped == SubSeq(l, 1, Len(l) - 1)
         IN  IF victim \in DOMAIN cache
             THEN IF cache[victim] > 0
                  THEN [fd_cache |-> cache, lru |-> SpliceFront(l, victim)]
                  ELSE EvictIfNeeded([k \in DOMAIN cache \ {victim} |-> cache[k]],
                                     popped, max)
             ELSE EvictIfNeeded(cache, popped, max)
    ELSE [fd_cache |-> cache, lru |-> l]

FdInit ==
    /\ max_open_files \in {IOEngineOptions(max) : max \in 0..MaxOpenFiles}
    /\ fd_cache = NoEntries
    /\ lru = <<>>
    /\ fd_users = [k \in FdKeys |-> 0]

FdIdle ==
    /\ max_open_files = 1
    /\ fd_cache = NoEntries
    /\ lru = <<>>
    /\ fd_users = [k \in FdKeys |-> 0]

\* AcquireFd where open() succeeds; a failed open() changes nothing
AcquireFd(key) ==
    /\ fd_users[key] < MaxUsers
    /\ IF key \in DOMAIN fd_cache
       THEN /\ lru' = SpliceFront(lru, key)
            /\ fd_cache' = [fd_cache EXCEPT ![key] = @ + 1]
       ELSE LET r == EvictIfNeeded(
                        [k \in DOMAIN fd_cache \cup {key} |->
                            IF k = key THEN 1 ELSE fd_cache[k]],
                        <<key>> \o lru, max_open_files)
            IN  /\ fd_cache' = r.fd_cache
                /\ lru' = r.lru
    /\ fd_users' = [fd_users EXCEPT ![key] = @ + 1]
    /\ UNCHANGED <<max_open_files, nonFdVars>>

\* ReleaseFd by a caller of Write or Read that acquired the key
ReleaseFd(key) ==
    /\ fd_users[key] > 0
    /\ fd_users' = [fd_users EXCEPT ![key] = @ - 1]
    /\ IF key \notin DOMAIN fd_cache
       THEN UNCHANGED <<fd_cache, lru>>
       ELSE LET ref_count == IF fd_cache[key] > 0 THEN fd_cache[key] - 1
                             ELSE fd_cache[key]
                released == [fd_cache EXCEPT ![key] = ref_count]
            IN  IF ref_count = 0
                THEN LET r == EvictIfNeeded(released, lru, max_open_files)
                     IN  /\ fd_cache' = r.fd_cache
                         /\ lru' = r.lru
                ELSE /\ fd_cache' = released
                     /\ UNCHANGED lru
    /\ UNCHANGED <<max_open_files, nonFdVars>>

FdNext ==
    \/ \E key \in FdKeys : AcquireFd(key)
    \/ \E key \in FdKeys : ReleaseFd(key)

(***************************************************************************)
(* StorageServiceImpl: the chunk service of a real node                    *)
(*                                                                         *)
(* A chunk file is the sequence of its bytes; the bytes of a hole are 0.   *)
(* Open flags are the set of the O_* bits that are set.  The calls into    *)
(* the operating system (open, pwrite, pread, fsync, ftruncate) can fail,  *)
(* and pwrite can store fewer bytes than asked.                            *)
(***************************************************************************)
PayloadBytes == 1..MaxByte
Payloads == UNION {[1..n -> PayloadBytes] : n \in 0..MaxData}
Offsets == 0..MaxOffset

\* StorageServiceImpl::ComputeChecksum: butil::crc32c::Value, a function of
\* the bytes with value 0 on the empty string (the payloads of the model are
\* too short for the value to reach 32 bits)
RECURSIVE ComputeChecksum(_)
ComputeChecksum(data) ==
    IF data = <<>> THEN 0
    ELSE ComputeChecksum(SubSeq(data, 1, Len(data) - 1)) * 31 + data[Len(data)]

\* A service that does not verify the checksum of a payload: the variant
\* C22 must tell apart from the code.
ChecksumMismatch_Never(data, checksum) == FALSE

\* if (request->checksum() != 0) { actual = ComputeChecksum(...);
\*     if (actual != request->checksum()) ... }
ChecksumMismatch(data, checksum) ==
    checksum # 0 /\ ComputeChecksum(data) # checksum

\* the flags a write goes to IOEngine::Write with
WriteFlags(flags) ==
    LET f == IF flags = {} THEN {"O_WRONLY", "O_CREAT"} ELSE flags
    IN IF f \cap {"O_WRONLY", "O_RDWR"} = {} THEN f \cup {"O_WRONLY"} ELSE f

\* ::pwrite of the first n bytes of data at pos
StoreAt(content, data, n, pos) ==
    LET end == pos + n
        len == IF n = 0 \/ Len(content) >= end THEN Len(content) ELSE end
    IN [i \in 1..len |->
            IF i > pos /\ i <= end THEN data[i - pos]
            ELSE IF i <= Len(content) THEN content[i]
            ELSE 0]

\* ::pwrite(fd, data, size, offset) storing n bytes: at offset, or, on a
\* descriptor opened with O_APPEND, where the platform appends instead
\* (Linux), at the end of the file
Pwrite(content, data, n, offset, flags) ==
    {StoreAt(content, data, n, offset)}
        \cup (IF "O_APPEND" \in flags
              THEN {StoreAt(content, data, n, Len(content))} ELSE {})

\* ::pread(fd, out, length, offset)
Pread(content, offset, length) ==
    IF offset >= Len(content) THEN <<>>
    ELSE SubSeq(content, offset + 1,
                IF offset + length > Len(content) THEN Len(content)
                ELSE offset + length)

Ftruncate(content, size) ==
    [i \in 1..size |-> IF i <= Len(content) THEN content[i] ELSE 0]

NoReply == [op |-> "None"]

WriteRequest(chunk_id, offset, data, checksum, flags) ==
    [op |-> "Write", chunk_id |-> chunk_id, offset |-> offset, data |-> data,
     checksum |-> checksum, flags |-> flags]

Reply(req, code, message, bytes, out, checksum) ==
    [op |-> req.op, req |-> req, code |-> code, message |-> message,
     bytes |-> bytes, data |-> out, checksum |-> checksum]

\* GetPath, and AllocPath when the chunk has no path: the manifest afterwards
GetOrAlloc(chunk_id) ==
    IF chunk_id \in DOMAIN path_map
    THEN UNCHANGED manifestVars
    ELSE LET full_path == FullPath(next_root % NumRoots, chunk_id)
         IN /\ next_root' = next_root + 1
            /\ path_map' = MapPut(path_map, chunk_id, full_path)
            /\ manifest_file' = AppendRecord(manifest_file, manifest_open,
                                             "ADD", chunk_id, full_path)
            /\ UNCHANGED manifest_open

IoOutcomes == {"ok", "open_failed", "io_failed", "fsync_failed"}

\* StorageServiceImpl::Write.  io is what the system calls of
\* IOEngine::Write do, n the bytes pwrite stores.
ChunkWrite(chunk_id, offset, data, checksum, flags) ==
    LET req == WriteRequest(chunk_id, offset, data, checksum, flags)
    IN
    /\ Len(manifest_file) + 3 <= MaxLogTokens
    /\ next_root < MaxAllocs
    /\ chunk_ops < MaxChunkOps
    /\ chunk_ops' = chunk_ops + 1
    /\ UNCHANGED <<ready, nonChunkVars>>
    /\ IF ~ready
       THEN /\ chunk_reply' = Reply(req, "IoError", "disk not ready", 0, <<>>, 0)
            /\ UNCHANGED <<manifestVars, chunk_files, last_write>>
       ELSE IF ChecksumMismatch(data, checksum)
       THEN /\ chunk_reply' = Reply(req, "InvalidArgument",
                                    "payload checksum mismatch", 0, <<>>, 0)
            /\ UNCHANGED <<manifestVars, chunk_files, last_write>>
       ELSE
         /\ GetOrAlloc(chunk_id)
         /\ LET path == path_map'[chunk_id]
                f == WriteFlags(flags)
                old == IF path \in DOMAIN chunk_files
                       THEN chunk_files[path] ELSE <<>>
            IN \E io \in IoOutcomes :
               IF io = "open_failed"
               THEN /\ chunk_reply' = Reply(req, FromErrno("EACCES"),
                                            "EACCES", 0, <<>>, 0)
                    /\ UNCHANGED <<chunk_files, last_write>>
               ELSE IF io = "io_failed"
               THEN /\ chunk_files' = MapPut(chunk_files, path, old)
                    /\ chunk_reply' = Reply(req, FromErrno("EIO"),
                                            "EIO", 0, <<>>, 0)
                    /\ last_write' = MapErase(last_write, chunk_id)
               ELSE \E n \in 0..Len(data) :
                    \E new \in Pwrite(old, data, n, offset, f) :
                    /\ Len(new) <= MaxFileLen
                    /\ chunk_files' = MapPut(chunk_files, path, new)
                    /\ IF io = "fsync_failed"
                       THEN /\ chunk_reply' = Reply(req, FromErrno("EIO"),
                                                    "EIO", 0, <<>>, 0)
                            /\ last_write' = MapErase(last_write, chunk_id)
                       ELSE /\ chunk_reply' = Reply(req, "Success", "", n,
                                                    <<>>, 0)
                            /\ last_write' =
                                 IF n = Len(data)
                                 THEN MapPut(last_write, chunk_id,
                                        [offset |-> offset, data |-> data])
                                 ELSE MapErase(last_write, chunk_id)

\* StorageServiceImpl::Read
ChunkRead(chunk_id, offset, length) ==
    LET req == [op |-> "Read", chunk_id |-> chunk_id, offset |-> offset,
                length |-> length]
        path == GetPath(chunk_id)
    IN
    /\ chunk_ops < MaxChunkOps
    /\ chunk_ops' = chunk_ops + 1
    /\ UNCHANGED <<ready, chunk_files, last_write, manifestVars, nonChunkVars>>
    /\ chunk_reply' \in
         IF ~ready THEN {Reply(req, "IoError", "disk not ready", 0, <<>>, 0)}
         ELSE IF path = EmptyPath
         THEN {Reply(req, "NodeNotFound", "chunk not found", 0, <<>>, 0)}
         ELSE IF path \notin DOMAIN chunk_files
         THEN {Reply(req, FromErrno("ENOENT"), "ENOENT", 0, <<>>, 0)}
         ELSE LET out == Pread(chunk_files[path], offset, length)
              IN {Reply(req, FromErrno("EIO"), "EIO", 0, <<>>, 0),
                  Reply(req, "Success", "", Len(out), out, ComputeChecksum(out))}

\* StorageServiceImpl::Truncate
ChunkTruncate(chunk_id, size) ==
    LET req == [op |-> "Truncate", chunk_id |-> chunk_id, size |-> size]
    IN
    /\ Len(manifest_file) + 3 <= MaxLogTokens
    /\ next_root < MaxAllocs
    /\ chunk_ops < MaxChunkOps
    /\ chunk_ops' = chunk_ops + 1
    /\ UNCHANGED <<ready, nonChunkVars>>
    /\ IF ~ready
       THEN /\ chunk_reply' = Reply(req, "IoError", "disk not ready", 0, <<>>, 0)
            /\ UNCHANGED <<manifestVars, chunk_files, last_write>>
       ELSE
         /\ GetOrAlloc(chunk_id)
         /\ LET path == path_map'[chunk_id]
                old == IF path \in DOMAIN chunk_files
                       THEN chunk_files[path] ELSE <<>>
            IN \E io \in {"ok", "open_failed", "io_failed"} :
               IF io = "open_failed"
               THEN /\ chunk_reply' = Reply(req, FromErrno("EACCES"),
                                            "EACCES", 0, <<>>, 0)
                    /\ UNCHANGED <<chunk_files, last_write>>
               ELSE /\ last_write' = MapErase(last_write, chunk_id)
                    /\ IF io = "ok"
                       THEN /\ chunk_files' = MapPut(chunk_files, path,
                                                     Ftruncate(old, size))
                            /\ chunk_reply' = Reply(req, "Success", "", 0,
                                                    <<>>, 0)
                       ELSE /\ chunk_files' = MapPut(chunk_files, path, old)
                            /\ chunk_reply' = Reply(req, FromErrno("EIO"),
                                                    "EIO", 0, <<>>, 0)

\* StorageServiceImpl::UnmountDisk with a disk manager
UnmountDisk(unmounted) ==
    LET req == [op |-> "UnmountDisk"]
    IN
    /\ chunk_ops < MaxChunkOps
    /\ chunk_ops' = chunk_ops + 1
    /\ ready' = (IF unmounted THEN FALSE ELSE ready)
    /\ chunk_reply' = IF unmounted THEN Reply(req, "Success", "", 0, <<>>, 0)
                      ELSE Reply(req, "IoError", "failed to unmount disk",
                                 0, <<>>, 0)
    /\ UNCHANGED <<chunk_files, last_write, manifestVars, nonChunkVars>>

\* the service constructed on empty data roots: ready_ is what
\* DiskManager::Prepare returned
ChunkInit ==
    /\ ready \in BOOLEAN
    /\ chunk_files = EmptyMap
    /\ chunk_reply = NoReply
    /\ last_write = EmptyMap
    /\ chunk_ops = 0

ChunkIdle ==
    /\ ready = FALSE
    /\ chunk_files = EmptyMap
    /\ chunk_reply = NoReply
    /\ last_write = EmptyMap
    /\ chunk_ops = 0

WriteFlagSets == {{}, {"O_WRONLY", "O_APPEND"}}

\* no checksum, the right one, a wrong one
Checksums(data) == {0, ComputeChecksum(data), ComputeChecksum(data) + 1}

ChunkNext ==
    \/ \E chunk_id \in ChunkIds, offset \in Offsets, data \in Payloads,
          flags \in WriteFlagSets :
          \E checksum \in Checksums(data) :
             ChunkWrite(chunk_id, offset, data, checksum, flags)
    \/ \E chunk_id \in ChunkIds, offset \in Offsets, length \in 0..MaxData :
          ChunkRead(chunk_id, offset, length)
    \/ \E chunk_id \in ChunkIds, size \in 0..MaxFileLen :
          ChunkTruncate(chunk_id, size)
    \/ \E unmounted \in BOOLEAN : UnmountDisk(unmounted)

(***************************************************************************)
(* Locks and outgoing RPCs                                                 *)
(*                                                                         *)
(* The handlers that take a lock and call another process, as the          *)
(* sequence of their lock scopes and calls: RpcVfsServer::Write            *)
(* (fd_mutex_, then StorageClient::WriteFile and MdsClient::WriteInode),   *)
(* RequestDispatcher::DispatchWrite on a real node (the registry's mu_     *)
(* inside GetNode, stub_mu_ inside GetStub, then the asynchronous          *)
(* stub->Write) and StorageNodeManager::HandleRegister (the registry's     *)
(* mu_ inside Upsert and Get, then RegisterVolume on the MDS stub).  A     *)
(* lock_guard leaves its scope on every return, so a return needs no lock  *)
(* step of its own.                                                        *)
(***************************************************************************)
LockStep(m, mode) == [k |-> "lock", m |-> m, mode |-> mode]
UnlockStep(m) == [k |-> "unlock", m |-> m, mode |-> "none"]
CallStep(name) == [k |-> "rpc", m |-> name, mode |-> "sync"]
AsyncCallStep(name) == [k |-> "rpc", m |-> name, mode |-> "async"]

\* A Write that keeps fd_mutex_ from its first scope to the end of the
\* second: the variant C24 must tell apart from the code.
RpcVfsWrite_OneScope ==
    <<LockStep("fd_mutex_", "exclusive"),
      CallStep("StorageClient::WriteFile"),
      UnlockStep("fd_mutex_"),
      CallStep("MdsClient::WriteInode")>>

RpcVfsWrite ==
    <<LockStep("fd_mutex_", "exclusive"),
      UnlockStep("fd_mutex_"),
      CallStep("StorageClient::WriteFile"),
      LockStep("fd_mutex_", "exclusive"),
      UnlockStep("fd_mutex_"),
      CallStep("MdsClient::WriteInode")>>

DispatchWriteReal ==
    <<LockStep("NodeRegistry::mu_", "shared"),
      UnlockStep("NodeRegistry::mu_"),
      LockStep("stub_mu_", "exclusive"),
      UnlockStep("stub_mu_"),
      AsyncCallStep("StorageService_Stub::Write")>>

HandleRegisterToMDS ==
    <<LockStep("NodeRegistry::mu_", "exclusive"),
      UnlockStep("NodeRegistry::mu_"),
      LockStep("NodeRegistry::mu_", "shared"),
      UnlockStep("NodeRegistry::mu_"),
      CallStep("MdsService_Stub::RegisterVolume")>>

Handlers == {"RpcVfsServer::Write", "DispatchWrite", "HandleRegister"}

Program(op) ==
    CASE op = "RpcVfsServer::Write" -> RpcVfsWrite
      [] op = "DispatchWrite" -> DispatchWriteReal
      [] op = "HandleRegister" -> HandleRegisterToMDS
      [] OTHER -> <<>>

NoCall == "none"
IdleTask == [op |-> "None", pc |-> 1, locks |-> {}, rpc |-> NoCall,
             waiting |-> FALSE]

\* the step task t is at, if its handler has not run to its end
AtStep(t, kind) ==
    /\ tasks[t].op # "None"
    /\ ~tasks[t].waiting
    /\ tasks[t].pc <= Len(Program(tasks[t].op))
    /\ Program(tasks[t].op)[tasks[t].pc].k = kind

CurrentStep(t) == Program(tasks[t].op)[tasks[t].pc]

\* std::mutex / std::shared_mutex: can task t take m in this mode now?
Lockable(t, m, mode) ==
    \A u \in Threads \ {t} :
        \A l \in tasks[u].locks :
            l.m = m => (mode = "shared" /\ l.mode = "shared")

TaskBegin(t, op) ==
    /\ tasks[t].op = "None"
    /\ tasks[t].rpc = NoCall
    /\ tasks' = [tasks EXCEPT ![t] = [IdleTask EXCEPT !.op = op]]
    /\ UNCHANGED nonTaskVars

TaskLock(t) ==
    /\ AtStep(t, "lock")
    /\ Lockable(t, CurrentStep(t).m, CurrentStep(t).mode)
    /\ tasks' = [tasks EXCEPT ![t].pc = @ + 1,
                              ![t].locks = @ \cup {[m |-> CurrentStep(t).m,
                                                    mode |-> CurrentStep(t).mode]}]
    /\ UNCHANGED nonTaskVars

TaskUnlock(t) ==
    /\ AtStep(t, "unlock")
    /\ tasks' = [tasks EXCEPT ![t].pc = @ + 1,
                              ![t].locks = {l \in @ : l.m # CurrentStep(t).m}]
    /\ UNCHANGED nonTaskVars

\* the call goes out: a synchronous call blocks the task until the reply, an
\* asynchronous one lets it go on
TaskCall(t) ==
    /\ AtStep(t, "rpc")
    /\ tasks[t].rpc = NoCall
    /\ tasks' = [tasks EXCEPT ![t].rpc = CurrentStep(t).m,
                              ![t].waiting = (CurrentStep(t).mode = "sync"),
                              ![t].pc = IF CurrentStep(t).mode = "sync"
                                        THEN @ ELSE @ + 1]
    /\ UNCHANGED nonTaskVars

\* the reply, the failure or the timeout of the call in flight
TaskCallDone(t) ==
    /\ tasks[t].rpc # NoCall
    /\ tasks' = [tasks EXCEPT ![t].rpc = NoCall,
                              ![t].waiting = FALSE,
                              ![t].pc = IF tasks[t].waiting THEN @ + 1 ELSE @]
    /\ UNCHANGED nonTaskVars

\* the handler returns: at its end, or early on an error (which ends every
\* lock scope it is in)
TaskReturn(t) ==
    /\ tasks[t].op # "None"
    /\ ~tasks[t].waiting
    /\ tasks' = [tasks EXCEPT ![t].op = "None", ![t].pc = 1, ![t].locks = {}]
    /\ UNCHANGED nonTaskVars

TaskInit == tasks = [t \in Threads |-> IdleTask]

TaskNext ==
    \/ \E t \in Threads, op \in Handlers : TaskBegin(t, op)
    \/ \E t \in Threads : TaskLock(t)
    \/ \E t \in Threads : TaskUnlock(t)
    \/ \E t \in Threads : TaskCall(t)
    \/ \E t \in Threads : TaskCallDone(t)
    \/ \E t \in Threads : TaskReturn(t)

TaskIdle == TaskInit

(***************************************************************************)
(* Start and Stop of a background loop                                     *)
(*                                                                         *)
(* StorageNodeManager (health thread) and InodeBatchMonitor (scan thread)  *)
(* start and stop their thread with the same code: running_.exchange, a    *)
(* std::thread member, join in Stop, `while (running_)` in the loop.       *)
(* Start and Stop can be called from several threads, such as the owner    *)
(* and the destructor's caller.                                            *)
(***************************************************************************)
IdleLoop == [running |-> FALSE, joinable |-> FALSE, pc |-> "none",
             rounds |-> 0, terminated |-> FALSE, quiet |-> FALSE,
             callers |-> [c \in Threads |-> "idle"]]

\* Start up to `if (running_.exchange(true)) return;`
LoopStart(c) ==
    /\ ~bg.terminated
    /\ bg.callers[c] = "idle"
    /\ bg' = IF bg.running
             THEN [bg EXCEPT !.quiet = FALSE]
             ELSE [bg EXCEPT !.quiet = FALSE, !.running = TRUE,
                             !.callers[c] = "spawn"]
    /\ UNCHANGED nonBgVars

\* thread_ = std::thread([this]() { Loop(); }): assigning to a thread that
\* is still joinable calls std::terminate
LoopSpawn(c) ==
    /\ ~bg.terminated
    /\ bg.callers[c] = "spawn"
    /\ bg' = IF bg.joinable
             THEN [bg EXCEPT !.terminated = TRUE, !.pc = "none",
                             !.callers[c] = "idle"]
             ELSE [bg EXCEPT !.joinable = TRUE, !.pc = "check",
                             !.callers[c] = "idle"]
    /\ UNCHANGED nonBgVars

\* Stop up to `if (!running_.exchange(false)) return;`
LoopStop(c) ==
    /\ ~bg.terminated
    /\ bg.callers[c] = "idle"
    /\ bg' = IF ~bg.running
             THEN [bg EXCEPT !.quiet = TRUE]
             ELSE [bg EXCEPT !.running = FALSE, !.callers[c] = "join"]
    /\ UNCHANGED nonBgVars

\* if (thread_.joinable()) thread_.join();  and Stop returns
LoopJoin(c) ==
    /\ ~bg.terminated
    /\ bg.callers[c] = "join"
    /\ bg.joinable => bg.pc = "exited"
    /\ bg' = [bg EXCEPT !.quiet = TRUE, !.callers[c] = "idle",
                        !.joinable = FALSE,
                        !.pc = IF bg.joinable THEN "none" ELSE @]
    /\ UNCHANGED nonBgVars

\* while (running_)
LoopTest ==
    /\ ~bg.terminated
    /\ bg.pc = "check"
    /\ bg' = [bg EXCEPT !.pc = IF bg.running THEN "work" ELSE "exited"]
    /\ UNCHANGED nonBgVars

\* the body of the loop: one sweep of the registry, one scan of the batch
\* files
LoopBody ==
    /\ ~bg.terminated
    /\ bg.pc = "work"
    /\ bg.rounds < MaxRounds
    /\ bg' = [bg EXCEPT !.pc = "sleep", !.rounds = @ + 1]
    /\ UNCHANGED nonBgVars

\* sleep_for returns
LoopWake ==
    /\ ~bg.terminated
    /\ bg.pc = "sleep"
    /\ bg' = [bg EXCEPT !.pc = "check"]
    /\ UNCHANGED nonBgVars

BgInit == bg = IdleLoop

BgIdle == BgInit

BgNext ==
    \/ \E c \in Threads : LoopStart(c)
    \/ \E c \in Threads : LoopSpawn(c)
    \/ \E c \in Threads : LoopStop(c)
    \/ \E c \in Threads : LoopJoin(c)
    \/ LoopTest
    \/ LoopBody
    \/ LoopWake

(***************************************************************************)
(* Functions of one call: file size encoding, the virtual engine, the      *)
(* inode slot format                                                       *)
(*                                                                         *)
(* probe holds the last call and what it returned.                         *)
(*                                                                         *)
(* Byte counts are 64-bit in the code and the size field has 14 bits; the  *)
(* model keeps the arithmetic and scales the numbers: Kilo stands for      *)
(* 1024, MaxSizeValue for 16383 and WordMod for 2^64.                      *)
(***************************************************************************)
NoProbe == [op |-> "None"]

RECURSIVE UnitBytes(_)
UnitBytes(unit) == IF unit = 0 THEN 1 ELSE Kilo * UnitBytes(unit - 1)

\* uint64_t: 2^64 = 2^14 * 2^30 * 2^20, the 14-bit value range times GB times
\* MB
WordMod == (MaxSizeValue + 1) * UnitBytes(3) * UnitBytes(2)

\* An encoding that divides without rounding up: the variant C27 must tell
\* apart from the code.
EncodeFileSize_Floor(size_bytes) ==
    IF size_bytes <= MaxSizeValue THEN [unit |-> 0, value |-> size_bytes]
    ELSE IF size_bytes <= MaxSizeValue * UnitBytes(1)
    THEN [unit |-> 1, value |-> size_bytes \div UnitBytes(1)]
    ELSE IF size_bytes <= MaxSizeValue * UnitBytes(2)
    THEN [unit |-> 2, value |-> size_bytes \div UnitBytes(2)]
    ELSE LET v == size_bytes \div UnitBytes(3)
         IN [unit |-> 3, value |-> IF v > MaxSizeValue THEN MaxSizeValue ELSE v]

\* UpdateFileSize: unit and value for size_bytes, in 64-bit arithmetic
EncodeFileSize(size_bytes) ==
    IF size_bytes <= MaxSizeValue THEN [unit |-> 0, value |-> size_bytes]
    ELSE IF size_bytes <= MaxSizeValue * UnitBytes(1)
    THEN [unit |-> 1,
          value |-> ((size_bytes + UnitBytes(1) - 1) % WordMod) \div UnitBytes(1)]
    ELSE IF size_bytes <= MaxSizeValue * UnitBytes(2)
    THEN [unit |-> 2,
          value |-> ((size_bytes + UnitBytes(2) - 1) % WordMod) \div UnitBytes(2)]
    ELSE LET v == ((size_bytes + UnitBytes(3) - 1) % WordMod) \div UnitBytes(3)
         IN [unit |-> 3, value |-> IF v > MaxSizeValue THEN MaxSizeValue ELSE v]

\* Inode::setSizeUnit and Inode::setFileSize: the 2-bit and the 14-bit field
SetFileSize(unit, value) ==
    [unit |-> unit % 4, value |-> value % (MaxSizeValue + 1)]

\* Inode::getFileSize
GetFileSize(file_size) == file_size.value * UnitBytes(file_size.unit)

\* MdsServiceImpl::UpdateFileSize on an inode whose size was (0, 0): found is
\* what ReadInode returns, written what WriteInode returns
UpdateFileSize(ino, size_bytes, found, written) ==
    LET enc == EncodeFileSize(size_bytes)
        call == [ino |-> ino, size_bytes |-> size_bytes]
        stored == SetFileSize(enc.unit, enc.value)
        none == [unit |-> 0, value |-> 0]
    IN
    /\ probe' =
         IF ino = 0
         THEN [op |-> "UpdateFileSize", call |-> call,
               code |-> "InvalidArgument", file_size |-> none]
         ELSE IF ~found
         THEN [op |-> "UpdateFileSize", call |-> call,
               code |-> "NodeNotFound", file_size |-> none]
         ELSE IF ~written
         THEN [op |-> "UpdateFileSize", call |-> call,
               code |-> "IoError", file_size |-> none]
         ELSE [op |-> "UpdateFileSize", call |-> call,
               code |-> "Success", file_size |-> stored]
    /\ UNCHANGED nonProbeVars

ProbeIdle == probe = NoProbe

SizeNext ==
    \E ino \in 0..MaxInodes, size_bytes \in 0..(WordMod - 1),
       found \in BOOLEAN, written \in BOOLEAN :
       UpdateFileSize(ino, size_bytes, found, written)

\* cfg_.failure_rate, in units of 1/RateScale; failure_dist_(rng_) draws from
\* [0, 1), here one of 0/RateScale .. (RateScale-1)/RateScale
FailureRates == 0..RateScale
Draws == 0..(RateScale - 1)

\* A MaybeFail that fails on a draw equal to the rate: the variant C28 must
\* tell apart from the code.
MaybeFail_Inclusive(code, draw, failure_rate) ==
    IF draw <= failure_rate THEN "VirtualNodeError" ELSE code

\* VirtualNodeEngine::MaybeFail: the status code afterwards
MaybeFail(code, draw, failure_rate) ==
    IF draw < failure_rate THEN "VirtualNodeError" ELSE code

\* VirtualNodeEngine::SimulateWrite into a fresh reply
SimulateWrite(size, draw, failure_rate) ==
    LET code == MaybeFail("Success", draw, failure_rate)
    IN /\ probe' = [op |-> "SimulateWrite", failure_rate |-> failure_rate,
                    size |-> size, code |-> code,
                    bytes |-> IF code # "Success" THEN 0 ELSE size]
       /\ UNCHANGED nonProbeVars

\* VirtualNodeEngine::SimulateRead into a fresh reply
SimulateRead(length, draw, failure_rate) ==
    LET code == MaybeFail("Success", draw, failure_rate)
        len == IF length > 0 THEN length ELSE DefaultReadSize
    IN /\ probe' = [op |-> "SimulateRead", failure_rate |-> failure_rate,
                    size |-> length, code |-> code,
                    bytes |-> IF code # "Success" THEN 0 ELSE len]
       /\ UNCHANGED nonProbeVars

\* VirtualNodeEngine::SimulateTruncate into a fresh reply
SimulateTruncate(size, draw, failure_rate) ==
    LET code == MaybeFail("Success", draw, failure_rate)
    IN /\ probe' = [op |-> "SimulateTruncate", failure_rate |-> failure_rate,
                    size |-> size, code |-> code, bytes |-> 0]
       /\ UNCHANGED nonProbeVars

EngineNext ==
    \/ \E size \in 0..MaxIoSize, draw \in Draws, failure_rate \in FailureRates :
          SimulateWrite(size, draw, failure_rate)
    \/ \E length \in 0..MaxIoSize, draw \in Draws, failure_rate \in FailureRates :
          SimulateRead(length, draw, failure_rate)
    \/ \E size \in 0..MaxIoSize, draw \in Draws, failure_rate \in FailureRates :
          SimulateTruncate(size, draw, failure_rate)

\* The slot format.  A slot is a sequence of cells: each fixed-width field
\* is one cell, each byte of the filename, the digest and the volume id is
\* one cell, and each block segment is one cell.  The one-byte length fields
\* count modulo LenMod (256 in the code) and a slot has SlotSize cells (512
\* bytes in the code).
NameBytes == {1}
Names == UNION {[1..n -> NameBytes] : n \in 0..MaxName}
ShortBytes == UNION {[1..n -> {1}] : n \in 0..1}

\* Inode::Inode()
NewInode ==
    [location_id |-> 0, block_id |-> 0, filename_len |-> 0, digest_len |-> 0,
     filename |-> <<>>, digest |-> <<>>, file_mode |-> 0, file_size |-> 0,
     inode |-> 0, namespace_id |-> 0, fm_time |-> 0, fa_time |-> 0,
     im_time |-> 0, fc_time |-> 0, volume_id |-> <<>>,
     block_segments |-> <<>>]

\* Inode::setFilename: filename_len is a uint8_t
SetFilename(ino, name) ==
    [ino EXCEPT !.filename = name, !.filename_len = Len(name) % LenMod]

\* Inode::setDigest: digest_len is a uint8_t
SetDigest(ino, dig) ==
    [ino EXCEPT !.digest = dig, !.digest_len = Len(dig) % LenMod]

\* Inode::serialize
Serialize(ino) ==
    <<ino.location_id, ino.block_id, ino.filename_len, ino.digest_len,
      ino.file_mode, ino.file_size, ino.inode, ino.namespace_id,
      ino.fm_time, ino.fa_time, ino.im_time, ino.fc_time>>
        \o ino.filename \o ino.digest
        \o <<Len(ino.volume_id) % LenMod>> \o ino.volume_id
        \o <<Len(ino.block_segments)>> \o ino.block_segments

HeaderCells == 12

\* Inode::deserialize(data, offset = 0, out, total_size): whether it returns
\* true, and out.  A read past the end of the buffer (the volume id is
\* copied without a bounds test) is reported as "overrun".
Deserialize(data, total_size) ==
    IF HeaderCells > total_size THEN [ok |-> "false", out |-> NewInode]
    ELSE
    LET head == [NewInode EXCEPT
                    !.location_id = data[1], !.block_id = data[2],
                    !.filename_len = data[3], !.digest_len = data[4],
                    !.file_mode = data[5], !.file_size = data[6],
                    !.inode = data[7], !.namespace_id = data[8],
                    !.fm_time = data[9], !.fa_time = data[10],
                    !.im_time = data[11], !.fc_time = data[12]]
        o1 == HeaderCells
    IN IF o1 + head.filename_len + head.digest_len > total_size
       THEN [ok |-> "false", out |-> head]
       ELSE
       LET o2 == o1 + head.filename_len
           o3 == o2 + head.digest_len
           named == [head EXCEPT !.filename = SubSeq(data, o1 + 1, o2),
                                 !.digest = SubSeq(data, o2 + 1, o3)]
       IN IF o3 + 1 > total_size THEN [ok |-> "false", out |-> named]
          ELSE
          LET volume_id_len == data[o3 + 1]
              o4 == o3 + 1 + volume_id_len
          IN IF o4 > total_size THEN [ok |-> "overrun", out |-> named]
             ELSE
             LET vol == [named EXCEPT !.volume_id = SubSeq(data, o3 + 2, o4)]
             IN IF o4 + 1 > total_size THEN [ok |-> "false", out |-> vol]
                ELSE
                LET segment_count == data[o4 + 1]
                    o5 == o4 + 1 + segment_count
                IN IF o5 > total_size THEN [ok |-> "false", out |-> vol]
                   ELSE [ok |-> "true",
                         out |-> [vol EXCEPT !.block_segments =
                                      SubSeq(data, o4 + 2, o5)]]

\* InodeStorage::write_inode: the slot written, or none when the serialized
\* inode is larger than a slot (the call throws)
WriteSlot(ino) ==
    LET serialized == Serialize(ino)
    IN IF Len(serialized) > SlotSize THEN <<>>
       ELSE serialized \o [i \in 1..(SlotSize - Len(serialized)) |-> 0]

\* an inode is built with the setters and written with write_inode; read_inode
\* reads it back
RoundTrip(name, dig, volume_id, segments, number, mode) ==
    LET built == SetDigest(SetFilename(
                     [NewInode EXCEPT !.inode = number, !.file_mode = mode,
                                      !.volume_id = volume_id,
                                      !.block_segments = segments],
                     name), dig)
        slot == WriteSlot(built)
    IN /\ probe' = IF slot = <<>>
                   THEN [op |-> "RoundTrip", inode |-> built, written |-> FALSE]
                   ELSE [op |-> "RoundTrip", inode |-> built, written |-> TRUE,
                         read |-> Deserialize(slot, SlotSize)]
       /\ UNCHANGED nonProbeVars

InodeNext ==
    \E name \in Names, dig \in ShortBytes, volume_id \in ShortBytes,
       segments \in ShortBytes, number \in 0..MaxInodes, mode \in 1..2 :
       RoundTrip(name, dig, volume_id, segments, number, mode)

\* the inodes a slot can decode to: location_id.fields.node_type has two bits
LocatedInodes ==
    [valid : {TRUE}, node_type : 0..3, node_id : 0..MaxIdx, size : 0..MaxBytes]

\* VirtualNodeLedger::ApplyInode on a ledger that InitEmpty built: what it
\* returns, the node id it reports and the ledger before and after
ApplyOnce(flags, inode) ==
    LET l == BuildLedger(flags, NoJson)
    IN  \E node_id \in ResolveNodeId(l.nodes, inode.node_id, inode.node_type % 4) :
          LET r == ApplyInode(l, inode, node_id)
          IN  /\ probe' = [op |-> "ApplyInode", inode |-> inode,
                           node_id |-> node_id, ok |-> r.ok,
                           before |-> l.nodes, after |-> r.ledger.nodes]
              /\ UNCHANGED nonProbeVars

ApplyNext ==
    \E flags \in EmptyFlags, inode \in LocatedInodes : ApplyOnce(flags, inode)

(***************************************************************************)
(* HandleHeartbeat as the RPC server runs it: on several threads at once.  *)
(* A handler reads the clock when it evaluates the arguments of            *)
(* registry_.UpdateHeartbeat, and takes the registry's lock inside it.     *)
(***************************************************************************)
HbThreads == 1..NumThreads

\* the node the agent registered, and the pre-registered virtual node
HbNodeIds == {NodeId(1, 1)} \cup VNodeIds

IdleHandler == [pc |-> "idle", node_id |-> EmptyNodeId, now |-> 0]

\* HandleHeartbeat up to std::chrono::steady_clock::now(), for a request with
\* a node_id that is not empty
HeartbeatStamp(t, node_id) ==
    /\ hb[t].pc = "idle"
    /\ hb' = [hb EXCEPT ![t] = [pc |-> "stamped", node_id |-> node_id, now |-> now]]
    /\ UNCHANGED <<srmVars, nonHbVars>>

\* HandleHeartbeat from registry_.UpdateHeartbeat(node_id, now) to its return:
\* the time point stored is the one read before the call
HeartbeatUpdate(t) ==
    /\ hb[t].pc = "stamped"
    /\ nodes' = UpdateHeartbeat(nodes, hb[t].node_id, hb[t].now)
    /\ hb' = [hb EXCEPT ![t] = IdleHandler]
    /\ UNCHANGED <<now, id_seq, srm_epoch, healthVars, agentVars, rpc, nonHbVars>>

\* AddVirtualNode while handlers run
UpsertVirtualNode(node_id) ==
    /\ AddVirtualNode(node_id)
    /\ UNCHANGED hb

\* the clock while handlers run
HbTick ==
    /\ Tick
    /\ UNCHANGED hb

\* the registry after the agent's RegisterNode was served at time 0
HbInit ==
    /\ now = 0
    /\ nodes = Upsert(EmptyMap, NodeId(1, 1), NodeContext("Real", "Online", 0), 0)
    /\ id_seq = 2
    /\ srm_epoch = 1
    /\ running = FALSE
    /\ health_pc = "none"
    /\ health_now = 0
    /\ health_snapshot = EmptyMap
    /\ health_wake = 0
    /\ stop_pc = "idle"
    /\ listen_port = 9200
    /\ agent_pc = "stopped"
    /\ agent_node_id = EmptyNodeId
    /\ agent_has_stub = FALSE
    /\ agent_wake = 0
    /\ rpc = NoRpc
    /\ hb = [t \in HbThreads |-> IdleHandler]

HbIdle == hb = [t \in HbThreads |-> IdleHandler]

HbNext ==
    \/ HbTick
    \/ \E node_id \in VNodeIds : UpsertVirtualNode(node_id)
    \/ \E t \in HbThreads, node_id \in HbNodeIds : HeartbeatStamp(t, node_id)
    \/ \E t \in HbThreads : HeartbeatUpdate(t)

(***************************************************************************)
(* One inode slot under the calls that read it, change a field of the      *)
(* Inode object and write the object back.  None of them takes a lock      *)
(* between its read_inode and its write_inode.  The timestamps, which      *)
(* every call sets from the clock, are left out.                           *)
(***************************************************************************)
RmwThreads == 1..NumThreads

\* the fields of an Inode the calls differ in
SlotInode(file_size, volume_id, blocks) ==
    [file_size |-> file_size, volume_id |-> volume_id, blocks |-> blocks]

NoVolume == ""
RmwVolumes == {"node-1"}
RmwSizes == {1, 2}
NoSize == SetFileSize(0, 0)

\* what the slot holds before the calls: a file just created, or one that
\* was written
FirstInodes ==
    {SlotInode(NoSize, NoVolume, 0), SlotInode(SetFileSize(0, 1), "node-1", 1)}

\* the Inode objects a caller of MdsServer::WriteInode passes
PlainInodes == {SlotInode(NoSize, NoVolume, 0)}

IdleCall == [pc |-> "idle", op |-> "None", arg |-> 0, copy |-> SlotInode(NoSize, NoVolume, 0)]

\* MdsServiceImpl::UpdateFileSize between ReadInode and WriteInode
SetSize(inode, size_bytes) ==
    LET enc == EncodeFileSize(size_bytes)
    IN  [inode EXCEPT !.file_size = SetFileSize(enc.unit, enc.value)]

\* MdsServer::TruncateFile between FindInodeByPath and write_inode: the
\* block segments are released and the size is 0
Truncate(inode) == [inode EXCEPT !.file_size = NoSize, !.blocks = 0]

\* MdsServiceImpl::CreateFile: inode->setVolumeId(node_id)
SetVolumeId(inode, node_id) == [inode EXCEPT !.volume_id = node_id]

\* what a call makes of the Inode it is given
Modify(call, inode) ==
    IF call.op = "UpdateFileSize" THEN SetSize(inode, call.arg)
    ELSE IF call.op = "TruncateFile" THEN Truncate(inode)
    ELSE IF call.op = "CreateFile" THEN SetVolumeId(inode, call.arg)
    ELSE IF call.op = "WriteInode" THEN call.arg
    ELSE inode

\* the read of a call: the slot is copied into the call's Inode object
ReadSlot(t, op, arg) ==
    /\ rmw.th[t].pc = "idle"
    /\ rmw' = [rmw EXCEPT !.th[t] = [pc |-> "read", op |-> op, arg |-> arg,
                                     copy |-> rmw.slot]]
    /\ UNCHANGED nonRmwVars

\* MdsServiceImpl::UpdateFileSize up to the return of ReadInode
SizeRead(t, size_bytes) == ReadSlot(t, "UpdateFileSize", size_bytes)

\* MdsServer::TruncateFile up to the return of FindInodeByPath
TruncateRead(t) == ReadSlot(t, "TruncateFile", 0)

\* MdsServiceImpl::CreateFile from FindInodeByPath, after MdsServer::CreateFile
\* has made the file visible
VolumeRead(t, node_id) == ReadSlot(t, "CreateFile", node_id)

\* the write_inode that ends each of the three: the object read, with the
\* call's change, replaces the slot
SlotWrite(t) ==
    /\ rmw.th[t].pc = "read"
    /\ rmw' = [rmw EXCEPT !.slot = Modify(rmw.th[t], rmw.th[t].copy),
                          !.th[t].pc = "done"]
    /\ UNCHANGED nonRmwVars

\* MdsServer::WriteInode with an Inode object of the caller
PlainWrite(t, inode) ==
    /\ rmw.th[t].pc = "idle"
    /\ rmw' = [rmw EXCEPT !.slot = inode,
                          !.th[t] = [pc |-> "done", op |-> "WriteInode",
                                     arg |-> inode, copy |-> inode]]
    /\ UNCHANGED nonRmwVars

RmwInit ==
    \E inode \in FirstInodes :
        rmw = [slot |-> inode, first |-> inode,
               th |-> [t \in RmwThreads |-> IdleCall]]

RmwIdle ==
    rmw = [slot |-> SlotInode(NoSize, NoVolume, 0),
           first |-> SlotInode(NoSize, NoVolume, 0),
           th |-> [t \in RmwThreads |-> IdleCall]]

RmwNext ==
    \/ \E t \in RmwThreads, size_bytes \in RmwSizes : SizeRead(t, size_bytes)
    \/ \E t \in RmwThreads : TruncateRead(t)
    \/ \E t \in RmwThreads, node_id \in RmwVolumes : VolumeRead(t, node_id)
    \/ \E t \in RmwThreads : SlotWrite(t)
    \/ \E t \in RmwThreads, inode \in PlainInodes : PlainWrite(t, inode)

\* the calls that have returned
ReturnedCalls == {t \in RmwThreads : rmw.th[t].pc = "done"}

\* the slot contents that the calls of the threads in S leave when they run
\* one after another, in any order, on inode
RECURSIVE SerialResults(_, _)
SerialResults(S, inode) ==
    IF S = {} THEN {inode}
    ELSE UNION {SerialResults(S \ {t}, Modify(rmw.th[t], inode)) : t \in S}

LateIdle == HbIdle /\ RmwIdle

\* the components added last play no part in the specification at hand
MoreIdle == ChunkIdle /\ TaskIdle /\ BgIdle /\ ProbeIdle /\ LateIdle

(***************************************************************************)
(* Specifications                                                          *)
(***************************************************************************)
InitManifest ==
    /\ MdsIdle
    /\ ManifestInit
    /\ LedgerIdle
    /\ FdIdle
    /\ MoreIdle
    /\ SrmIdle
    /\ DispatchIdle

SpecManifest == InitManifest /\ [][ManifestNext]_vars

InitSrm ==
    /\ MdsIdle
    /\ SrmInit
    /\ ManifestIdle
    /\ LedgerIdle
    /\ FdIdle
    /\ MoreIdle
    /\ DispatchIdle

SpecSrm == InitSrm /\ [][SrmNext]_vars

\* the registry is one the SRM can have built; the clock, the health thread
\* and the agent stand still while the gateway is exercised
InitDispatch ==
    /\ MdsIdle
    /\ DispatchInit
    /\ ManifestIdle
    /\ LedgerIdle
    /\ FdIdle
    /\ MoreIdle
    /\ nodes \in Registries
    /\ now = 0 /\ id_seq = 2 /\ srm_epoch = 1
    /\ running = FALSE /\ health_pc = "none" /\ health_now = 0
    /\ health_snapshot = EmptyMap /\ health_wake = 0 /\ stop_pc = "idle"
    /\ listen_port = 9200 /\ agent_pc = "stopped" /\ agent_node_id = EmptyNodeId
    /\ agent_has_stub = FALSE /\ agent_wake = 0 /\ rpc = NoRpc

SpecDispatch == InitDispatch /\ [][DispatchNext]_vars

InitMds ==
    /\ MdsInit
    /\ ManifestIdle
    /\ LedgerIdle
    /\ FdIdle
    /\ MoreIdle
    /\ SrmIdle
    /\ DispatchIdle

SpecMds == InitMds /\ [][MdsNext]_vars

InitMkdirRace ==
    /\ MdsRaceInit
    /\ ManifestIdle
    /\ LedgerIdle
    /\ FdIdle
    /\ MoreIdle
    /\ SrmIdle
    /\ DispatchIdle

SpecMkdirRace == InitMkdirRace /\ [][MdsRaceNext]_vars

InitMdsFull ==
    /\ MdsFullInit
    /\ ManifestIdle
    /\ LedgerIdle
    /\ FdIdle
    /\ MoreIdle
    /\ SrmIdle
    /\ DispatchIdle

SpecMdsFull == InitMdsFull /\ [][MdsNext]_vars

InitMdsRpc ==
    /\ MdsRpcInit
    /\ ManifestIdle
    /\ LedgerIdle
    /\ FdIdle
    /\ MoreIdle
    /\ SrmIdle
    /\ DispatchIdle

SpecMdsRpc == InitMdsRpc /\ [][MdsRpcNext]_vars

InitMdsObs ==
    /\ MdsObsInit
    /\ ManifestIdle
    /\ LedgerIdle
    /\ FdIdle
    /\ MoreIdle
    /\ SrmIdle
    /\ DispatchIdle

SpecMdsObs == InitMdsObs /\ [][MdsObsNext]_vars

InitLedger ==
    /\ LedgerInit
    /\ MdsIdle
    /\ ManifestIdle
    /\ SrmIdle
    /\ DispatchIdle
    /\ FdIdle
    /\ MoreIdle

SpecLedger == InitLedger /\ [][LedgerNext]_vars

InitChunk ==
    /\ ChunkInit
    /\ ProbeIdle
    /\ LateIdle
    /\ TaskIdle
    /\ BgIdle
    /\ ManifestInit
    /\ MdsIdle
    /\ SrmIdle
    /\ DispatchIdle
    /\ LedgerIdle
    /\ FdIdle

SpecChunk == InitChunk /\ [][ChunkNext]_vars

InitTask ==
    /\ TaskInit
    /\ ProbeIdle
    /\ LateIdle
    /\ BgIdle
    /\ ChunkIdle
    /\ ManifestIdle
    /\ MdsIdle
    /\ SrmIdle
    /\ DispatchIdle
    /\ LedgerIdle
    /\ FdIdle

SpecTask == InitTask /\ [][TaskNext]_vars

InitBg ==
    /\ BgInit
    /\ ProbeIdle
    /\ LateIdle
    /\ TaskIdle
    /\ ChunkIdle
    /\ ManifestIdle
    /\ MdsIdle
    /\ SrmIdle
    /\ DispatchIdle
    /\ LedgerIdle
    /\ FdIdle

SpecBg == InitBg /\ [][BgNext]_vars

InitSize ==
    /\ ProbeIdle
    /\ LateIdle
    /\ BgIdle
    /\ TaskIdle
    /\ ChunkIdle
    /\ ManifestIdle
    /\ MdsIdle
    /\ SrmIdle
    /\ DispatchIdle
    /\ LedgerIdle
    /\ FdIdle

SpecSize == InitSize /\ [][SizeNext]_vars

SpecEngine == InitSize /\ [][EngineNext]_vars

SpecInode == InitSize /\ [][InodeNext]_vars

InitHb ==
    /\ MdsIdle
    /\ HbInit
    /\ ManifestIdle
    /\ LedgerIdle
    /\ FdIdle
    /\ ChunkIdle
    /\ TaskIdle
    /\ BgIdle
    /\ ProbeIdle
    /\ RmwIdle
    /\ DispatchIdle

SpecHb == InitHb /\ [][HbNext]_vars

InitScan ==
    /\ MdsIdle
    /\ ScanInit
    /\ ManifestIdle
    /\ SrmIdle
    /\ FdIdle
    /\ MoreIdle
    /\ DispatchIdle

SpecScan == InitScan /\ [][ScanNext]_vars

InitRmw ==
    /\ MdsIdle
    /\ SrmIdle
    /\ ManifestIdle
    /\ LedgerIdle
    /\ FdIdle
    /\ ChunkIdle
    /\ TaskIdle
    /\ BgIdle
    /\ ProbeIdle
    /\ HbIdle
    /\ RmwInit
    /\ DispatchIdle

SpecRmw == InitRmw /\ [][RmwNext]_vars

SpecApply == InitSize /\ [][ApplyNext]_vars

SpecTorn == InitManifest /\ [][TornNext]_vars

InitFd ==
    /\ FdInit
    /\ MoreIdle
    /\ MdsIdle
    /\ ManifestIdle
    /\ SrmIdle
    /\ DispatchIdle
    /\ LedgerIdle

SpecFd == InitFd /\ [][FdNext]_vars

\* C1: while the log is writable, replaying the manifest file from scratch
\* yields exactly the in-memory chunk_id -> path map.
C1_ReplayEqualsMap ==
    manifest_open => LoadManifest(manifest_file) = path_map

(***************************************************************************)
(* Properties of the SRM and the agent                                     *)
(***************************************************************************)
\* C2: while the health thread runs (it is asleep between two sweeps), a
\* node that has had no heartbeat for more than heartbeat_timeout plus one
\* health_check_interval is Offline.
C2_OfflineWithinOneInterval ==
    health_pc = "sleep" =>
        \A n \in DOMAIN nodes :
            now - nodes[n].last_heartbeat > HeartbeatTimeout + HealthCheckInterval
                => nodes[n].state = "Offline"

\* a registered agent's node has timed out and the sweep has marked it
C2_Witness ==
    /\ health_pc = "sleep"
    /\ \E n \in DOMAIN nodes :
          /\ nodes[n].type = "Real"
          /\ nodes[n].state = "Offline"
          /\ now - nodes[n].last_heartbeat > HeartbeatTimeout

\* C3: whenever a heartbeating node's record is flipped to Offline, more than
\* heartbeat_timeout has elapsed at that moment since the heartbeat the
\* record holds; a heartbeat already recorded is not followed by the sweep
\* turning the node Offline.
C3_OfflineOnlyIfStale ==
    [][\A n \in DOMAIN nodes :
          (/\ n \in DOMAIN nodes'
           /\ nodes[n].type = "Real"
           /\ nodes[n].state # "Offline"
           /\ nodes'[n].state = "Offline")
          => now - nodes[n].last_heartbeat > HeartbeatTimeout]_vars

\* C4: a successful RegisterNode answers with a non-empty node_id, and that
\* node_id is the key of the record the call has just inserted.
C4_RegisterReturnsKey ==
    [][(/\ rpc.kind = "RegisterReq"
        /\ rpc'.kind = "RegisterResp"
        /\ rpc'.code = "Success")
       => /\ rpc'.node_id # EmptyNodeId
          /\ rpc'.node_id \in DOMAIN nodes'
          /\ rpc'.node_id \notin DOMAIN nodes]_vars

\* C5: when the agent takes a heartbeat response that sets require_rereg or
\* reports NodeNotFound, it clears node_id_ and sleeps register_backoff; with
\* node_id_ empty the only request it sends is RegisterNode, and node_id_
\* stays empty until a RegisterNode response sets it.
C5_ReregAfterRejection ==
    [][/\ (/\ agent_pc = "hb_wait"
           /\ rpc.kind = "HeartbeatResp"
           /\ (rpc.require_rereg \/ rpc.code = "NodeNotFound")
           /\ agent_pc' # "hb_wait")
          => /\ agent_node_id' = EmptyNodeId
             /\ agent_pc' = "sleep"
             /\ agent_wake' = now + RegisterBackoff
       /\ (/\ agent_node_id = EmptyNodeId
           /\ rpc.kind = "None"
           /\ rpc'.kind # "None")
          => rpc'.kind = "RegisterReq"
       /\ (agent_node_id = EmptyNodeId /\ agent_node_id' # EmptyNodeId)
          => rpc.kind = "RegisterResp"]_vars

\* the SRM has lost the node and its rejection is on its way to the agent
C5_Witness ==
    /\ agent_pc = "hb_wait"
    /\ agent_node_id # EmptyNodeId
    /\ rpc.kind = "HeartbeatResp"
    /\ rpc.code = "NodeNotFound"
    /\ rpc.require_rereg

\* C6: HandleHeartbeat reports Success exactly when the node_id is in the
\* registry, and then the node is Online afterwards (also when it had been
\* marked Offline) and require_rereg is not set.
C6_HeartbeatRevives ==
    [][(rpc.kind = "HeartbeatReq" /\ rpc'.kind = "HeartbeatResp")
       => /\ (rpc'.code = "Success") <=> (rpc.node_id \in DOMAIN nodes)
          /\ rpc.node_id \in DOMAIN nodes
             => /\ rpc.node_id \in DOMAIN nodes'
                /\ nodes'[rpc.node_id].state = "Online"
                /\ nodes'[rpc.node_id].last_heartbeat = now
                /\ ~rpc'.require_rereg]_vars

\* a heartbeat is about to be served for a node the sweep has marked Offline
C6_Witness ==
    /\ rpc.kind = "HeartbeatReq"
    /\ rpc.node_id \in DOMAIN nodes
    /\ nodes[rpc.node_id].state = "Offline"

(***************************************************************************)
(* Properties of the RequestDispatcher                                     *)
(***************************************************************************)
\* C7: the caller's closure has run exactly once when a dispatched call is
\* over, whichever path it took, and not at all before: not while the call
\* waits for the real node, and never a second time.
C7_ClosureExactlyOnce ==
    \A c \in CallIds :
        /\ calls[c].pc = "new" => calls[c].done_runs = 0
        /\ calls[c].pc = "inflight" => calls[c].done_runs = 0
        /\ calls[c].pc = "done" => calls[c].done_runs = 1

\* one call has been completed by the virtual engine, another by a real
\* node whose reply did not arrive
C7_Witness ==
    \E c, d \in CallIds :
        /\ calls[c].pc = "done" /\ calls[c].engine_calls = 1
        /\ calls[d].pc = "done" /\ calls[d].stub_calls = 1
        /\ calls[d].code = "NetworkError"

\* C8: a write, read or truncate with an empty node_id is answered
\* InvalidArgument, one with a node_id the registry does not hold is
\* answered NodeNotFound, and in both cases the call is over without having
\* reached the virtual engine or a real node's stub.
C8_RejectsBadNodeId ==
    [][\A c \in CallIds :
          (calls[c].pc = "new" /\ calls'[c].pc # "new")
          => LET call == calls'[c]
                 rejected == /\ call.pc = "done"
                             /\ call.engine_calls = 0
                             /\ call.stub_calls = 0
                             /\ stubs' = stubs
             IN /\ call.op \in {"Write", "Read", "Truncate"}
                /\ call.node_id = EmptyNodeId
                   => call.code = "InvalidArgument" /\ rejected
                /\ (call.node_id # EmptyNodeId /\ call.node_id \notin DOMAIN nodes)
                   => call.code = "NodeNotFound" /\ rejected]_vars

\* a truncate without node_id and a read for an unregistered node have been
\* answered
C8_Witness ==
    \E c, d \in CallIds :
        /\ calls[c].op = "Truncate" /\ calls[c].code = "InvalidArgument"
        /\ calls[d].op = "Read" /\ calls[d].code = "NodeNotFound"

(***************************************************************************)
(* Properties of the MdsServer                                             *)
(***************************************************************************)
\* thread t waits for a directory lock that thread u holds
WaitsFor(t, u) ==
    /\ t # u
    /\ th[t].pc = "lock"
    /\ LET req == Head(th[t].pending)
       IN \E h \in held[u] :
             /\ h.inode = req.inode
             /\ ~(h.mode = "Shared" /\ req.mode = "Shared")

\* C9: the operations that take directory locks never deadlock (no set of
\* threads in which each waits for a lock held by another of the set), and
\* a thread that holds a directory lock and asks for another one asks for a
\* higher inode number than any it holds.
C9_NoDeadlockAscending ==
    /\ \A S \in (SUBSET Threads) \ {{}} :
          ~(\A t \in S : \E u \in S : WaitsFor(t, u))
    /\ \A t \in Threads :
          th[t].pc = "lock" =>
              \A h \in held[t] : h.inode < Head(th[t].pending).inode

\* an rmdir holds the parent's lock and waits for the directory's own,
\* which another thread holds
C9_Witness ==
    \E t, u \in Threads :
        /\ th[t].op = "Rmdir"
        /\ held[t] # {}
        /\ WaitsFor(t, u)

\* how often a name occurs in a directory page
NameCount(page, name) == Cardinality({i \in 1..Len(page) : page[i].name = name})

\* C10: when mkdir(parent/a) and mkdir(parent/b), a # b, have run side by
\* side under an existing parent directory in which neither name was bound,
\* both have returned true and the parent's page holds each of the two
\* entries exactly once.
C10_BothMkdirsSucceed ==
    (/\ race.phase = "race"
     /\ race.todo = EmptyMap
     /\ \A t \in Threads : th[t].pc = "idle")
    => \A t \in DOMAIN race.paths :
          /\ th[t].result = TRUE
          /\ NameCount(pages[inode_table[race.parent]], BaseName(race.paths[t])) = 1

\* no namespace operation is in progress
Quiescent == \A t \in Threads : th[t].pc = "idle"

\* slot i holds a live inode: a path is bound to it and, unless that path
\* is "/", the page of the path's parent holds an entry for it
Live(i) ==
    \E path \in DOMAIN inode_table :
        /\ inode_table[path] = i
        /\ \/ path = RootPath
           \/ /\ ParentPath(path) \in DOMAIN inode_table
              /\ \E k \in 1..Len(pages[inode_table[ParentPath(path)]]) :
                    LET e == pages[inode_table[ParentPath(path)]][k]
                    IN e.name = BaseName(path) /\ e.inode = i

\* C11: whenever no operation is in progress, allocator bit i is set if and
\* only if slot i holds a live inode: none is allocated but unbound and none
\* is bound but free.
C11_BitmapIffLive ==
    Quiescent => \A i \in Inos : (i \in bitmap) <=> Live(i)

\* thread t's Rmdir returns true in this step
RmdirSucceeds(t) ==
    /\ th[t].op = "Rmdir"
    /\ th[t].pc = "body"
    /\ th'[t].pc = "idle"
    /\ pages' # pages

\* C12: when Rmdir(p) returns true, FindInodeByPath(p) finds nothing
\* afterwards and the inode that p was bound to when it was unlinked is no
\* longer allocated.
C12_RmdirUnbindsAndFrees ==
    [][\A t \in Threads :
          RmdirSucceeds(t) =>
              /\ FindInodeByPath(inode_table', path_kv', slots', th[t].path) = InvalidIno
              /\ th[t].path \in DOMAIN inode_table =>
                     inode_table[th[t].path] \notin bitmap']_vars

\* the inodes allocated for "/": the one "/" is bound to and those that
\* calls of CreateRoot in progress have allocated
RootInodes ==
    {inode_table[p] : p \in {RootPath} \cap DOMAIN inode_table}
        \cup {th[t].inode_no : t \in {u \in Threads : th[u].op = "CreateRoot"}}

\* C13: CreateRoot is idempotent: however often it is called, at most one
\* inode is ever allocated for "/", and once "/" is bound it stays bound to
\* the same inode.
C13_CreateRootIdempotent ==
    [][/\ Cardinality(RootInodes') <= 1
       /\ RootPath \in DOMAIN inode_table =>
              /\ RootPath \in DOMAIN inode_table'
              /\ inode_table'[RootPath] = inode_table[RootPath]]_vars

\* in this step thread t's call finds that allocate_inode has failed
AllocationFails(t) ==
    /\ FreeInos = {}
    /\ \/ CreateRootBegin(t) /\ RootPath \notin DOMAIN inode_table
       \/ MkdirBody(t)
       \/ CreateFileBody(t)

\* C14: when allocate_inode fails in CreateRoot, Mkdir or CreateFile, the
\* call returns false and has written nothing: directory pages, inode
\* slots, the path index, inode_table_ and the bitmap are as before.
C14_AllocFailureWritesNothing ==
    [][\A t \in Threads :
          AllocationFails(t) =>
              /\ th'[t].result = FALSE
              /\ fsVars' = fsVars]_vars

\* thread t's RemoveFile returns true in this step
RemoveFileSucceeds(t) ==
    /\ th[t].op = "RemoveFile"
    /\ th[t].pc = "body"
    /\ th'[t].pc = "idle"
    /\ pages' # pages

\* the inodes of the entries called name in a directory page
EntryInodes(page, name) ==
    {page[k].inode : k \in {j \in 1..Len(page) : page[j].name = name}}

\* C15: the inode a successful remove_file reports as detached is the inode
\* that call unlinked (the one the removed entry pointed at) and freed,
\* whatever other remove_file and create_file calls ran beside it.
C15_DetachedIsRemoved ==
    [][\A t \in Threads :
          RemoveFileSucceeds(t) =>
              /\ DetachedInodes(th[t]) = bitmap \ bitmap'
              /\ DetachedInodes(th[t]) =
                     EntryInodes(pages[th[t].parent_ino], BaseName(th[t].path))]_vars

\* thread t's TruncateFile returns true in this step
TruncateFileSucceeds(t) ==
    /\ th[t].pc = "truncate"
    /\ th'[t].pc = "idle"
    /\ th[t].inode.inode \in DOMAIN slots'

\* C16: when RemoveFile or TruncateFile returns true, the registered
\* observer has been called in that call, before it returned, with the
\* inode the call affected: the one the removed entry pointed at, the one
\* whose slot was truncated.
C16_ObserverNotified ==
    [][\A t \in Threads :
          /\ RemoveFileSucceeds(t) =>
                 \E i \in EntryInodes(pages[th[t].parent_ino], BaseName(th[t].path)) :
                     observer'.last = <<t, i>>
          /\ TruncateFileSucceeds(t) =>
                 observer'.last = <<t, th[t].inode.inode>>]_vars

\* the slots of the batch file that the scan of this step reads
ScanRange ==
    LET file_size == Len(vfiles.batch)
        offset == StartOffset(monitor.offsets, file_size)
    IN  [first |-> offset + 1, last |-> monitor'.offsets]

\* C17: applying an inode-batch slot to the ledger is idempotent per slot: a
\* scan that reads slots again which the ledger already accounts for leaves
\* every device's used and free bytes as applying only the new slots would
C17_ApplyIdempotentPerSlot ==
    [][ScanOnce =>
        LET first == IF applied.ledger + 1 > ScanRange.first
                     THEN applied.ledger + 1 ELSE ScanRange.first
        IN  ledger'.nodes \in
                {r.ledger.nodes :
                    r \in ProcessSlots(ledger, {},
                                       SubSeq(vfiles.batch, first, ScanRange.last))}]_vars

\* C18: every node whose ledger capacity (total or free bytes) changed while
\* the slots of a scan cycle were applied is in the touched-node set that the
\* cycle delivers to the update callback
C18_TouchedCoversChanged ==
    [][ScanOnce =>
        \A id \in DOMAIN ledger.nodes :
            GetNodeCapacity(ledger'.nodes, id) # GetNodeCapacity(ledger.nodes, id)
                => id \in monitor'.updated]_vars

\* the devices of the ledger
LedgerDevices ==
    UNION {{ledger.nodes[id].ssd_devices[i] : i \in DOMAIN ledger.nodes[id].ssd_devices}
           \cup {ledger.nodes[id].hdd_devices[i] : i \in DOMAIN ledger.nodes[id].hdd_devices} :
           id \in DOMAIN ledger.nodes}

\* C19: after LoadFromJson or InitEmpty and any sequence of ApplyInode calls,
\* every device of the ledger has used + free <= capacity and used >= 0
C19_DeviceInvariant ==
    \A dev \in LedgerDevices :
        dev.used + dev.free <= dev.capacity /\ dev.used >= 0

\* C20: after a release the eviction closes unreferenced entries until the
\* cache holds at most max_open_files entries and closes no entry that is
\* still referenced; the cache stays over the cap only when every entry
\* left has a refcount above 0
C20_EvictionAfterRelease ==
    [][\A key \in FdKeys :
          ReleaseFd(key) =>
            /\ \A k \in DOMAIN fd_cache :
                  (IF k = key THEN fd_cache[k] > 1 ELSE fd_cache[k] > 0)
                      => k \in DOMAIN fd_cache'
            /\ \/ Cardinality(DOMAIN fd_cache') <= max_open_files
               \/ \A k \in DOMAIN fd_cache' : fd_cache'[k] > 0]_vars

\* thread t's CreateFile or Mkdir of d/x returns true in this step, where d
\* is not "/" and the parent inode the call resolved was written as the
\* directory d
ChildCreated(t) ==
    /\ th[t].op \in {"CreateFile", "Mkdir"}
    /\ th[t].pc = "body"
    /\ Len(th[t].path) > 1
    /\ ReadInode(slots, th[t].parent_ino).file_type = "Directory"
    /\ ReadInode(slots, th[t].parent_ino).filename = ParentPath(th[t].path)
    /\ th[t].path \notin DOMAIN inode_table
    /\ th[t].path \in DOMAIN inode_table'

\* C30: rmdir(d) interleaved with create_file or mkdir of d/x behaves as some
\* serial order: an entry is never added to the page of a directory that has
\* been removed, so when d/x is created d is still bound to the directory
\* whose page received the entry, and that directory's inode is allocated
C30_NoChildOfRemovedDirectory ==
    [][\A t \in Threads :
          ChildCreated(t) =>
            /\ ParentPath(th[t].path) \in DOMAIN inode_table'
            /\ inode_table'[ParentPath(th[t].path)] = th[t].parent_ino
            /\ th[t].parent_ino \in bitmap']_vars

\* where the log holds an ADD record for chunk_id that no later DEL record of
\* the chunk follows
LiveAdds(chunk_id) ==
    {i \in 1..(Len(manifest_file) - 1) :
        /\ manifest_file[i] = WordTok("ADD")
        /\ manifest_file[i + 1] = NumTok(chunk_id)
        /\ \A j \in (i + 1)..(Len(manifest_file) - 1) :
              ~(manifest_file[j] = WordTok("DEL")
                    /\ manifest_file[j + 1] = NumTok(chunk_id))}

\* C23: AllocPath(chunk_id) is idempotent: a call for a chunk that has a path
\* returns that path and appends nothing, so that for every chunk with a path
\* the log holds exactly one ADD record since the chunk was last deleted
C23_AllocIdempotent ==
    \A chunk_id \in DOMAIN path_map : Cardinality(LiveAdds(chunk_id)) = 1

\* C25: the dispatcher caches at most one stub per node_id: every call that
\* reached a stub of a node uses the stub cached for that node, so all calls
\* to one node share one stub, and a cached entry is never removed or
\* replaced by another stub.
C25_OneStubPerNode ==
    /\ [](\A c \in CallIds :
             calls[c].stub # NoStub
             => /\ calls[c].node_id \in DOMAIN stubs
                /\ stubs[calls[c].node_id] = calls[c].stub)
    /\ [][\A n \in DOMAIN stubs :
             n \in DOMAIN stubs' /\ stubs'[n] = stubs[n]]_vars

\* two calls for the same real node have both been sent through a stub
C25_Witness ==
    \E c, d \in CallIds :
        /\ c # d
        /\ calls[c].node_id = calls[d].node_id
        /\ calls[c].stub_calls = 1
        /\ calls[d].stub_calls = 1
        /\ calls[c].stub # NoStub
        /\ calls[c].stub = calls[d].stub

\* C21: a read that succeeds at the chunk, offset and length of a write that
\* succeeded and stored all its data, with no write or truncate of the chunk
\* in between, returns the written data and the CRC32C of that data.
C21_ReadReturnsWritten ==
    (/\ chunk_reply.op = "Read"
     /\ chunk_reply.code = "Success"
     /\ chunk_reply.req.chunk_id \in DOMAIN last_write
     /\ last_write[chunk_reply.req.chunk_id].offset = chunk_reply.req.offset
     /\ Len(last_write[chunk_reply.req.chunk_id].data) = chunk_reply.req.length)
    => /\ chunk_reply.data = last_write[chunk_reply.req.chunk_id].data
       /\ chunk_reply.checksum =
              ComputeChecksum(last_write[chunk_reply.req.chunk_id].data)

\* this step serves a write whose nonzero checksum is not the CRC32C of its
\* payload
BadChecksumWrite ==
    /\ chunk_ops' # chunk_ops
    /\ chunk_reply'.op = "Write"
    /\ chunk_reply'.req.checksum # 0
    /\ chunk_reply'.req.checksum # ComputeChecksum(chunk_reply'.req.data)

\* C22 as stated: a write whose nonzero checksum differs from the CRC32C of
\* the payload is answered InvalidArgument "payload checksum mismatch", and
\* it allocates no manifest entry and writes no byte of any chunk file.
C22_RejectedInvalidArgument ==
    [][BadChecksumWrite
       => /\ chunk_reply'.code = "InvalidArgument"
          /\ chunk_reply'.message = "payload checksum mismatch"
          /\ UNCHANGED <<manifestVars, chunk_files>>]_vars

\* C22, amended: such a write is never answered Success, allocates no manifest
\* entry and writes no byte of any chunk file; it is answered InvalidArgument
\* "payload checksum mismatch" when the service is ready, and IoError
\* "disk not ready" when it is not.
C22_RejectedBeforeIo ==
    [][BadChecksumWrite
       => /\ UNCHANGED <<manifestVars, chunk_files>>
          /\ ready => /\ chunk_reply'.code = "InvalidArgument"
                      /\ chunk_reply'.message = "payload checksum mismatch"
          /\ ~ready => /\ chunk_reply'.code = "IoError"
                       /\ chunk_reply'.message = "disk not ready"]_vars

\* a write with a wrong checksum was rejected by a service that holds chunk
\* files
C22_Witness ==
    /\ chunk_reply.op = "Write"
    /\ chunk_reply.message = "payload checksum mismatch"
    /\ chunk_reply.req.checksum # ComputeChecksum(chunk_reply.req.data)
    /\ chunk_files # EmptyMap

\* C24: no task holds a lock (the node registry's lock, the stub cache's
\* mutex, the fd table's mutex) while an RPC it issued to another process is
\* in flight.
C24_NoLockAcrossRpc ==
    \A t \in Threads : tasks[t].rpc # NoCall => tasks[t].locks = {}

\* a task's call is in flight while another task is inside a lock scope
C24_Witness ==
    \E t, u \in Threads :
        /\ t # u
        /\ tasks[t].rpc # NoCall
        /\ tasks[t].pc > 1
        /\ tasks[u].locks # {}

\* C26: once a Stop call has returned, and until Start is called again, the
\* loop thread has terminated: it is in no sweep or scan, at no test of the
\* flag and in no sleep.
C26_NoRoundAfterStop ==
    bg.quiet => bg.pc \in {"none", "exited"}

\* the unit-3 value bound: the largest byte count the size field can hold
MaxFileSize == MaxSizeValue * UnitBytes(3)

\* size_bytes rounded up to a multiple of the unit
RoundedUp(size_bytes, unit) ==
    ((size_bytes + UnitBytes(unit) - 1) \div UnitBytes(unit)) * UnitBytes(unit)

\* C27 as stated: after a successful update_file_size(ino, n), for any n, the
\* stored unit and value decode to n rounded up to the unit, and the decoded
\* byte count is at least n.
C27_DecodesRoundedUp ==
    (probe.op = "UpdateFileSize" /\ probe.code = "Success")
    => /\ GetFileSize(probe.file_size)
              = RoundedUp(probe.call.size_bytes, probe.file_size.unit)
       /\ GetFileSize(probe.file_size) >= probe.call.size_bytes

\* C27, amended: after a successful update_file_size(ino, n) with n no more
\* than the largest size the field holds (16383 GB), the stored unit is the
\* smallest whose value fits, the stored unit and value decode to n rounded
\* up to that unit, and the decoded byte count is at least n; for a larger n
\* the unit is GB and the decoded byte count is below n.
C27_DecodesRoundedUpToCap ==
    (probe.op = "UpdateFileSize" /\ probe.code = "Success")
    => LET n == probe.call.size_bytes
           unit == probe.file_size.unit
           decoded == GetFileSize(probe.file_size)
       IN IF n <= MaxFileSize
          THEN /\ decoded = RoundedUp(n, unit)
               /\ decoded >= n
               /\ unit > 0 => n > MaxSizeValue * UnitBytes(unit - 1)
               /\ n <= MaxSizeValue * UnitBytes(unit)
          ELSE /\ unit = 3
               /\ decoded <= MaxFileSize
               /\ decoded < n

\* a size that is no multiple of its unit was stored, rounded up
C27_Witness ==
    /\ probe.op = "UpdateFileSize"
    /\ probe.code = "Success"
    /\ probe.file_size.unit = 2
    /\ probe.call.size_bytes <= MaxFileSize
    /\ GetFileSize(probe.file_size) > probe.call.size_bytes

\* C28: with failure_rate 0 every operation of the virtual engine answers
\* Success, and with failure_rate 1 every operation answers VirtualNodeError.
C28_FailureRateExtremes ==
    probe.op \in {"SimulateWrite", "SimulateRead", "SimulateTruncate"}
    => /\ probe.failure_rate = 0 => probe.code = "Success"
       /\ probe.failure_rate = RateScale => probe.code = "VirtualNodeError"

\* a read was simulated with failure_rate 1
C28_Witness ==
    /\ probe.op = "SimulateRead"
    /\ probe.failure_rate = RateScale
    /\ probe.code = "VirtualNodeError"

\* C29: an inode that was serialized into its slot and deserialized from it
\* is read back complete, and equal to the original in every field.
C29_SlotRoundTrip ==
    (probe.op = "RoundTrip" /\ probe.written)
    => /\ probe.read.ok = "true"
       /\ probe.read.out = probe.inode

\* C31: the cache never closes a descriptor that is in use: while a caller
\* of Write or Read is between its AcquireFd and its ReleaseFd of a key, the
\* entry of the key is in the cache (its descriptor was not closed by an
\* eviction) and its refcount counts every such caller.
C31_HeldFdStaysOpen ==
    \A key \in FdKeys :
        fd_users[key] > 0
        => /\ key \in DOMAIN fd_cache
           /\ fd_cache[key] >= fd_users[key]

\* a key is held while the cache is over max_open_files: an eviction ran and
\* left the held entry alone
C31_Witness ==
    /\ Cardinality(DOMAIN fd_cache) > max_open_files
    /\ \E key \in FdKeys : fd_users[key] > 0 /\ key \in DOMAIN fd_cache
    /\ \E key \in FdKeys : fd_users[key] = 0 /\ key \notin DOMAIN fd_cache

\* C32: the last_heartbeat of a node record never decreases, whatever the
\* interleaving of upserts and of heartbeats handled at the same time for
\* the node.
C32_LastHeartbeatMonotonic ==
    [][\A node_id \in DOMAIN nodes :
          node_id \in DOMAIN nodes'
          => nodes'[node_id].last_heartbeat >= nodes[node_id].last_heartbeat]_vars

C34_CheckpointBehindLedger ==
    (IF vfiles.checkpoint = NoOffset THEN 0 ELSE vfiles.checkpoint) <= applied.json

\* the node that an inode's class and index name
NamedNode(inode) == <<Prefixes[inode.node_type + 1], inode.node_id>>

\* C36: apply_inode takes capacity from the node that the inode's class and
\* index name (node_ssd_<i>, node_hdd_<i> or node_mix_<i>) and from no other:
\* the devices of every other node are as before the call.
C36_OnlyNamedNodeChanges ==
    (probe.op = "ApplyInode" /\ probe.inode.node_type \in 0..2)
    => \A id \in DOMAIN probe.before :
          id # NamedNode(probe.inode) => probe.after[id] = probe.before[id]

\* C37: apply_inode rejects an inode whose node_type is 3: it returns false
\* and leaves the used and free bytes of every device as they were.
C37_ReservedTypeRejected ==
    (probe.op = "ApplyInode" /\ probe.inode.node_type = 3)
    => /\ ~probe.ok
       /\ probe.after = probe.before

\* C35: when the manifest ends in a record that was written only in part,
\* the replay discards that record: the replayed map is the fold of the
\* complete records before it, and the cut record adds no mapping.
C35_PartialTailDiscarded ==
    [][\A c \in ChunkIds :
          (TornAlloc(c) \/ TornDelete(c))
          => path_map' = FoldRecords(manifest_file, 1, EmptyMap)]_vars

\* C38: every path that resolves, "/" included, is resolved by
\* FindInodeByPath to the inode whose number is LookupIno of the path; "/"
\* resolves to the inode CreateRoot allocated and bound.
C38_FindMatchesLookup ==
    \A path \in Paths :
        LookupIno(inode_table, path_kv, slots, path) # InvalidIno
        => FindInodeByPath(inode_table, path_kv, slots, path)
               = LookupIno(inode_table, path_kv, slots, path)

\* C39: the calls that rewrite one inode slot (UpdateFileSize, TruncateFile,
\* WriteInode and the volume binding of the CreateFile RPC) are atomic with
\* respect to each other: the slot holds what the calls that have returned
\* leave when applied one after another in some order, so no update is lost.
C39_SlotIsSerial ==
    rmw.slot \in SerialResults(ReturnedCalls, rmw.first)

\* call c is dispatched in this step for a registered node that the health
\* thread has marked Offline
DispatchedOffline(c) ==
    /\ calls[c].pc = "new"
    /\ calls'[c].pc # "new"
    /\ calls'[c].node_id \in DOMAIN nodes
    /\ nodes[calls'[c].node_id].state = "Offline"

\* C40: the dispatcher routes by node type, whatever the node's liveness: a
\* request to a registered node marked Offline is never answered
\* NodeNotFound; for a virtual node the engine is called (when there is one),
\* for a real node the stub is called unless no channel could be built.
C40_OfflineStillDispatched ==
    [][\A c \in CallIds :
          DispatchedOffline(c) =>
              LET call == calls'[c]
                  type == nodes[call.node_id].type
              IN  /\ call.code # "NodeNotFound"
                  /\ type = "Virtual" =>
                        IF has_engine
                        THEN call.engine_calls = 1 /\ call.code \in SimulateCodes
                        ELSE call.code = "VirtualNodeError"
                  /\ type = "Real" =>
                        \/ call.pc = "inflight" /\ call.stub_calls = 1
                        \/ call.pc = "done" /\ call.code = "NetworkError"]_vars

\* a virtual node and a real node, both Offline, have each been sent a request
C40_Witness ==
    \E c, d \in CallIds :
        /\ calls[c].node_id \in DOMAIN nodes
        /\ nodes[calls[c].node_id] = NodeContext("Virtual", "Offline", 0)
        /\ calls[c].engine_calls = 1
        /\ calls[c].code = "Success"
        /\ calls[d].node_id \in DOMAIN nodes
        /\ nodes[calls[d].node_id] = NodeContext("Real", "Offline", 0)
        /\ calls[d].stub_calls = 1

====
